---------------------------- MODULE Spec2Model ----------------------------
(***************************************************************************)
(* The window-frame reconciliation and transaction-tracking core of rift:  *)
(* the WindowTxStore (src/model/tx_store.rs), the window event handlers    *)
(* of the Reactor (src/actor/reactor/events/window.rs) and the state they  *)
(* work on (src/model/reactor.rs).                                         *)
(*                                                                         *)
(* Lengths are integers counted in tenths of a point, so that the 0.1      *)
(* tolerance of the geometry comparisons is the integer Tol.               *)
(***************************************************************************)
EXTENDS Integers, Sequences, FiniteSets, TLC

(***************************************************************************)
(* Bounds of the model.                                                    *)
(***************************************************************************)
\* transaction ids are issued up to MaxTx
MaxTx == 3
\* window ids 1..MaxWindows; a window id is never reused
MaxWindows == 2
\* concurrent callers of the transaction store
NumCallers == 2
\* the events the inbound queue of the mission-control actor holds at most
MaxQueue == 3

(***************************************************************************)
(* Option<T>: None is the empty tuple, Some(v) the one-element tuple.      *)
(***************************************************************************)
None == << >>
Some(v) == << v >>
IsSome(o) == o # None
Unwrap(o) == o[1]
Option(S) == {None} \cup {Some(v) : v \in S}

\* TransactionId::default
DefaultTx == 0

Wids == 1..MaxWindows
\* the external (window server) ids the environment hands out
ExtBase == 6
ExtIds == {ExtBase + w : w \in Wids}
TxIds == DefaultTx..MaxTx
Callers == 1..NumCallers

(***************************************************************************)
(* Geometry.                                                               *)
(***************************************************************************)
Tol == 1

Rect(x, y, w, h) == [x |-> x, y |-> y, w |-> w, h |-> h]

Abs(a) == IF a < 0 THEN -a ELSE a

\* f64::is_within(how_much, other)
is_within(a, how_much, b) == Abs(a - b) <= how_much

\* CGSize::same_as, CGPoint::same_as, CGRect::same_as
size_same_as(f, g) == is_within(f.w, Tol, g.w) /\ is_within(f.h, Tol, g.h)

origin_same_as(f, g) == is_within(f.x, Tol, g.x) /\ is_within(f.y, Tol, g.y)

same_as(f, g) == origin_same_as(f, g) /\ size_same_as(f, g)

(***************************************************************************)
(* TransactionId and TxRecord.                                             *)
(***************************************************************************)
\* TransactionId::next
TxNext(t) == t + 1

TxRecord(txid, target) == [txid |-> txid, target |-> target]

(***************************************************************************)
(* WindowTxStore.  Each operation is a read-modify-write of the entry of   *)
(* its key: the *_entry operators map the entry found (None when vacant)   *)
(* to the entry left, and the operators named as in the source apply them  *)
(* to the map.                                                             *)
(***************************************************************************)
\* an occupied entry keeps its txid
insert_entry_keeps_txid(old, txid, target) ==
    IF IsSome(old)
    THEN Some([Unwrap(old) EXCEPT !.target = Some(target)])
    ELSE Some(TxRecord(txid, Some(target)))

insert_entry(old, txid, target) == Some(TxRecord(txid, Some(target)))

\* the target goes and the txid falls back to the default
clear_target_entry_resets(old) ==
    IF IsSome(old) THEN Some(TxRecord(DefaultTx, None)) ELSE None

clear_target_entry(old) ==
    IF IsSome(old) THEN Some([Unwrap(old) EXCEPT !.target = None]) ELSE None

\* an occupied entry keeps its target
next_txid_entry_keeps_target(old) ==
    IF IsSome(old)
    THEN Some([Unwrap(old) EXCEPT !.txid = TxNext(@)])
    ELSE Some(TxRecord(TxNext(DefaultTx), None))

\* the successor is computed, the stored txid stays
next_txid_entry_unstored(old) ==
    IF IsSome(old)
    THEN Some([Unwrap(old) EXCEPT !.target = None])
    ELSE Some(TxRecord(TxNext(DefaultTx), None))

next_txid_entry(old) ==
    IF IsSome(old)
    THEN Some(TxRecord(TxNext(Unwrap(old).txid), None))
    ELSE Some(TxRecord(TxNext(DefaultTx), None))

\* an occupied entry keeps its target
set_last_txid_entry_keeps_target(old, txid) ==
    IF IsSome(old)
    THEN Some([Unwrap(old) EXCEPT !.txid = txid])
    ELSE Some(TxRecord(txid, None))

set_last_txid_entry(old, txid) ==
    IF IsSome(old)
    THEN Some([Unwrap(old) EXCEPT !.txid = txid, !.target = None])
    ELSE Some(TxRecord(txid, None))

\* the record stays, only its target goes
remove_entry_keeps_txid(old) == clear_target_entry(old)

\* the record stays, reset to the default txid
remove_entry_resets(old) == Some(TxRecord(DefaultTx, None))

remove_entry(old) == None

insert(st, id, txid, target) ==
    [st EXCEPT ![id] = insert_entry(st[id], txid, target)]

get(st, id) == st[id]

clear_target(st, id) == [st EXCEPT ![id] = clear_target_entry(st[id])]

remove(st, id) == [st EXCEPT ![id] = remove_entry(st[id])]

next_txid(st, id) == [st EXCEPT ![id] = next_txid_entry(st[id])]

set_last_txid(st, id, txid) ==
    [st EXCEPT ![id] = set_last_txid_entry(st[id], txid)]

last_txid(st, id) ==
    IF IsSome(get(st, id)) THEN Unwrap(get(st, id)).txid ELSE DefaultTx

(***************************************************************************)
(* The environment: three screens side by side, one space each.  Spaces 1  *)
(* and 3 are active, space 2 is not; a frame left of or beyond the screens *)
(* lies on no space.                                                       *)
(***************************************************************************)
ScreenW == 100
ScreenH == 80
Spaces == {1, 2, 3}
ActiveSpaces == {1, 3}
\* pids of the applications registered with the app manager; window w
\* belongs to the application of pid w
Apps == {1}

\* layout events
WindowAdded(space, wid) == [type |-> "WindowAdded", wid |-> wid, space |-> Some(space)]
WindowRemoved(wid) == [type |-> "WindowRemoved", wid |-> wid, space |-> None]
WindowRemovedPreserveFloating(wid) ==
    [type |-> "WindowRemovedPreserveFloating", wid |-> wid, space |-> None]
WindowResized(wid, old_frame, new_frame) ==
    [type |-> "WindowResized", wid |-> wid, space |-> None,
     old_frame |-> old_frame, new_frame |-> new_frame]
\* layout commands: the swap the drag coordinator commits on mouse-up, and
\* the recomputation of the layout (update_layout_or_warn)
SwapWindows(a, b) == [type |-> "SwapWindows", wid |-> a, with |-> b]
LayoutUpdate == [type |-> "LayoutUpdate", wid |-> 0, with |-> 0]

\* Reactor::best_space_for_window
best_space_for_window(frame, server_id) ==
    IF frame.x >= 0 /\ frame.x < ScreenW THEN Some(1)
    ELSE IF frame.x >= ScreenW /\ frame.x < 2 * ScreenW THEN Some(2)
    ELSE IF frame.x >= 2 * ScreenW /\ frame.x < 3 * ScreenW THEN Some(3)
    ELSE None

\* Reactor::is_space_active
is_space_active(space) == space \in ActiveSpaces

\* Reactor::workspace_command_space
workspace_command_space == Some(1)

\* the frame a constraint probe asks for: the whole screen of the space
ProbeTarget(space) == Rect((space - 1) * ScreenW, 0, ScreenW, ScreenH)

(***************************************************************************)
(* Reactor state.  A handler is an operator from the Reactor (a record of  *)
(* the fields below) and the event's payload to the Reactor it leaves.     *)
(*   windows            window_manager.windows                             *)
(*   window_ids         window_manager.window_ids                          *)
(*   store              transaction_manager's WindowTxStore                *)
(*   constraint_probes  Reactor::constraint_probes                         *)
(*   constraints        the layout engine's per-window WindowConstraint    *)
(*   drag_state, skip_layout_for_window     drag_manager                   *)
(*   mission_control_active                                                *)
(*   changing_screens   space_manager.changing_screens                     *)
(*   menu_state         menu_manager.menu_state                            *)
(*   events             the layout events sent while handling the event    *)
(*   commands           the layout commands and updates issued meanwhile   *)
(*   requests           the requests sent to the window's application      *)
(*   outcome            the branch that decided the event                  *)
(***************************************************************************)
WindowState(frame, sys_id, is_minimized, is_standard) ==
    [frame_monotonic |-> frame, sys_id |-> sys_id, is_minimized |-> is_minimized,
     is_standard |-> is_standard, is_manageable |-> FALSE, ignore_app_rule |-> FALSE,
     title |-> ""]

is_effectively_manageable(window) == window.is_manageable /\ ~window.ignore_app_rule

WindowConstraint(max_w, max_h) == [max_w |-> max_w, max_h |-> max_h]

ConstraintProbe(txid, target) == [txid |-> txid, target |-> target]

DragSession(window, last_frame, origin_space) ==
    [window |-> window, last_frame |-> last_frame, origin_space |-> origin_space,
     settled_space |-> None, layout_dirty |-> FALSE]

Inactive == [tag |-> "Inactive", session |-> None, target |-> None]
Active(session) == [tag |-> "Active", session |-> Some(session), target |-> None]
PendingSwap(session, target) ==
    [tag |-> "PendingSwap", session |-> Some(session), target |-> Some(target)]

send_layout_event(r, event) == [r EXCEPT !.events = Append(@, event)]

Decided(r, outcome) == [r EXCEPT !.outcome = outcome]

\* utils::compute_window_manageability
compute_window_manageability(sys_id, is_minimized, is_standard) ==
    ~is_minimized /\ is_standard

(***************************************************************************)
(* TransactionManager: the Reactor's wrapper of the WindowTxStore.         *)
(***************************************************************************)
store_txid(r, wsid, txid, target) ==
    [r EXCEPT !.store = insert(@, wsid, txid, target)]

get_last_sent_txid(r, wsid) == last_txid(r.store, wsid)

get_target_frame(r, wsid) ==
    IF IsSome(get(r.store, wsid)) THEN Unwrap(get(r.store, wsid)).target ELSE None

remove_for_window(r, wsid) == [r EXCEPT !.store = clear_target(@, wsid)]

purge_for_window(r, wsid) == [r EXCEPT !.store = remove(@, wsid)]

generate_next_txid(r, wsid) == [r EXCEPT !.store = next_txid(@, wsid)]

set_last_sent_txid(r, wsid, txid) ==
    [r EXCEPT !.store = set_last_txid(@, wsid, txid)]

(***************************************************************************)
(* DragCoordinator (drag_manager): the drag/swap state machine.            *)
(***************************************************************************)
\* Reactor::is_in_drag
is_in_drag(r) == r.drag_state.tag \in {"Active", "PendingSwap"}

\* DragManager::dragged
dragged(r) ==
    IF IsSome(r.drag_state.session)
    THEN Some(Unwrap(r.drag_state.session).window)
    ELSE None

\* DragManager::last_target
last_target(r) == r.drag_state.target

\* DragManager::reset
drag_reset(r) == [r EXCEPT !.drag_state = Inactive]

\* whether two frames overlap in a region of positive area
Overlaps(f, g) ==
    /\ f.x < g.x + g.w /\ g.x < f.x + f.w
    /\ f.y < g.y + g.h /\ g.y < f.y + f.h

\* Reactor::ensure_active_drag
ensure_active_drag(r, wid, frame) ==
    IF r.drag_state.tag = "Inactive" \/ dragged(r) # Some(wid)
    THEN [r EXCEPT !.drag_state =
            Active(DragSession(wid, frame,
                               best_space_for_window(frame, r.windows[wid][1].sys_id)))]
    ELSE r

\* Reactor::update_active_drag
update_active_drag(r, wid, new_frame) ==
    IF dragged(r) = Some(wid)
    THEN [r EXCEPT !.drag_state.session =
            Some([Unwrap(@) EXCEPT !.last_frame = new_frame])]
    ELSE r

\* the other manageable windows whose region the dragged window overlaps
SwapCandidates(r, wid, new_frame) ==
    {t \in Wids \ {wid} :
        /\ IsSome(r.windows[t])
        /\ is_effectively_manageable(Unwrap(r.windows[t]))
        /\ Overlaps(new_frame, Unwrap(r.windows[t]).frame_monotonic)}

\* Reactor::maybe_swap_on_drag
maybe_swap_on_drag(r, wid, new_frame) ==
    IF dragged(r) # Some(wid) THEN r
    ELSE LET candidates == SwapCandidates(r, wid, new_frame)
             session == Unwrap(r.drag_state.session)
         IN IF candidates # {}
            THEN [r EXCEPT !.drag_state =
                    PendingSwap(session,
                                CHOOSE t \in candidates : \A u \in candidates : t <= u)]
            ELSE [r EXCEPT !.drag_state = Active(session)]

\* DragEventHandler::handle_mouse_up
handle_mouse_up(r) ==
    LET swap == IF r.drag_state.tag = "PendingSwap"
                THEN << SwapWindows(Unwrap(r.drag_state.session).window,
                                    Unwrap(r.drag_state.target)) >>
                ELSE << >>
    IN [r EXCEPT !.commands = @ \o swap \o << LayoutUpdate >>,
                 !.drag_state = Inactive,
                 !.skip_layout_for_window = None]

(***************************************************************************)
(* Placement helpers of the window event handlers.                         *)
(***************************************************************************)
active_space_for_window(frame, server_id) ==
    LET best == best_space_for_window(frame, server_id)
    IN IF IsSome(best) /\ is_space_active(Unwrap(best)) THEN best
       ELSE IF server_id = None THEN workspace_command_space
       ELSE None

\* Reactor::maybe_start_constraint_probe: the Reactor's state when a probe is
\* started for wid (needs_probe: the layout needs the window's size limits)
CanStartProbe(r, wid, needs_probe) ==
    /\ needs_probe
    /\ IsSome(r.windows[wid])
    /\ IsSome(Unwrap(r.windows[wid]).sys_id)
    /\ r.constraints[wid] = None

maybe_start_constraint_probe(r, wid, space, needs_probe) ==
    IF CanStartProbe(r, wid, needs_probe)
    THEN LET wsid == Unwrap(Unwrap(r.windows[wid]).sys_id)
             r1 == generate_next_txid(r, wsid)
         IN [r1 EXCEPT !.constraint_probes[wid] =
                Some(ConstraintProbe(get_last_sent_txid(r1, wsid), ProbeTarget(space)))]
    ELSE r

maybe_dispatch_window_added_in_space(r, wid, space, needs_probe) ==
    LET should_dispatch ==
            IF IsSome(r.windows[wid])
            THEN is_effectively_manageable(Unwrap(r.windows[wid]))
            ELSE FALSE
    IN IF should_dispatch
       THEN IF CanStartProbe(r, wid, needs_probe)
            THEN maybe_start_constraint_probe(r, wid, space, needs_probe)
            ELSE send_layout_event(r, WindowAdded(space, wid))
       ELSE r

\* Reactor::process_windows_for_app_rules: the app rules act on state of the
\* layout component that is not part of this model
process_windows_for_app_rules(r, wid) == r

(***************************************************************************)
(* WindowEventHandler.                                                     *)
(***************************************************************************)
\* the record of a new window starts at the default transaction id
handle_window_created_fresh(r, wid, frame, sys_id, is_minimized, is_standard, needs_probe) ==
    LET r1 == IF IsSome(sys_id)
              THEN [r EXCEPT !.window_ids[Unwrap(sys_id)] = Some(wid)]
              ELSE r
        is_manageable == compute_window_manageability(sys_id, is_minimized, is_standard)
        window_state == [WindowState(frame, sys_id, is_minimized, is_standard)
                            EXCEPT !.is_manageable = is_manageable]
        r2 == IF IsSome(sys_id)
              THEN store_txid(r1, Unwrap(sys_id), DefaultTx, window_state.frame_monotonic)
              ELSE r1
        r3 == [r2 EXCEPT !.windows[wid] = Some(window_state)]
        active_space == active_space_for_window(frame, sys_id)
    IN IF is_manageable /\ IsSome(active_space)
       THEN Decided(maybe_dispatch_window_added_in_space(
                        r3, wid, Unwrap(active_space), needs_probe), "created")
       ELSE Decided(r3, "created")

handle_window_created(r, wid, frame, sys_id, is_minimized, is_standard, needs_probe) ==
    LET r1 == IF IsSome(sys_id)
              THEN [r EXCEPT !.window_ids[Unwrap(sys_id)] = Some(wid)]
              ELSE r
        is_manageable == compute_window_manageability(sys_id, is_minimized, is_standard)
        window_state == [WindowState(frame, sys_id, is_minimized, is_standard)
                            EXCEPT !.is_manageable = is_manageable]
        r2 == IF IsSome(sys_id)
              THEN store_txid(r1, Unwrap(sys_id),
                              get_last_sent_txid(r1, Unwrap(sys_id)),
                              window_state.frame_monotonic)
              ELSE r1
        r3 == [r2 EXCEPT !.windows[wid] = Some(window_state)]
        active_space == active_space_for_window(frame, sys_id)
    IN IF is_manageable /\ IsSome(active_space)
       THEN LET r4 == IF wid \in Apps THEN process_windows_for_app_rules(r3, wid) ELSE r3
            IN Decided(maybe_dispatch_window_added_in_space(
                           r4, wid, Unwrap(active_space), needs_probe), "created")
       ELSE Decided(r3, "created")

\* the removal is carried out and announced without looking the window up
handle_window_destroyed_announced(r, wid) ==
    Decided(send_layout_event([r EXCEPT !.windows[wid] = None,
                                        !.constraint_probes[wid] = None],
                              WindowRemoved(wid)), "destroyed")

handle_window_destroyed(r, wid) ==
    IF r.windows[wid] = None THEN Decided(r, "unknown")
    ELSE
    LET window_server_id == Unwrap(r.windows[wid]).sys_id
        r1 == IF IsSome(window_server_id)
              THEN [purge_for_window(r, Unwrap(window_server_id))
                        EXCEPT !.window_ids[Unwrap(window_server_id)] = None]
              ELSE r
        r2 == [r1 EXCEPT !.windows[wid] = None, !.constraint_probes[wid] = None]
        r3 == send_layout_event(r2, WindowRemoved(wid))
        r4 == IF /\ r3.drag_state.tag = "PendingSwap"
                 /\ \/ Unwrap(r3.drag_state.session).window = wid
                    \/ r3.drag_state.target = Some(wid)
              THEN [r3 EXCEPT !.drag_state = Inactive]
              ELSE r3
        dragged_window == dragged(r4)
        target == last_target(r4)
        r5 == IF dragged_window = Some(wid) \/ target = Some(wid)
              THEN LET r5a == drag_reset(r4)
                   IN IF dragged_window = Some(wid)
                      THEN [r5a EXCEPT !.drag_state = Inactive]
                      ELSE r5a
              ELSE r4
        r6 == IF r5.skip_layout_for_window = Some(wid)
              THEN [r5 EXCEPT !.skip_layout_for_window = None]
              ELSE r5
    IN Decided(r6, "destroyed")

\* the probe of the window outlives the minimization
handle_window_minimized_keeps_probe(r, wid) ==
    IF r.windows[wid] = None THEN Decided(r, "unknown")
    ELSE IF Unwrap(r.windows[wid]).is_minimized THEN Decided(r, "ignored")
    ELSE LET r1 == [r EXCEPT !.windows[wid] =
                        Some([Unwrap(@) EXCEPT !.is_minimized = TRUE,
                                               !.is_manageable = FALSE])]
         IN Decided(send_layout_event(r1, WindowRemoved(wid)), "minimized")

\* every minimized notification of a known window is carried out
handle_window_minimized_repeated(r, wid) ==
    IF r.windows[wid] = None THEN Decided(r, "unknown")
    ELSE LET r1 == [r EXCEPT !.windows[wid] =
                        Some([Unwrap(@) EXCEPT !.is_minimized = TRUE,
                                               !.is_manageable = FALSE]),
                             !.constraint_probes[wid] = None]
         IN Decided(send_layout_event(r1, WindowRemoved(wid)), "minimized")

\* handle_window_minimized
handle_window_minimized(r, wid) ==
    IF r.windows[wid] = None THEN Decided(r, "unknown")
    ELSE IF Unwrap(r.windows[wid]).is_minimized THEN Decided(r, "ignored")
    ELSE LET r1 == [r EXCEPT !.windows[wid] =
                        Some([Unwrap(@) EXCEPT !.is_minimized = TRUE,
                                               !.is_manageable = FALSE]),
                             !.constraint_probes[wid] = None]
         IN Decided(send_layout_event(r1, WindowRemoved(wid)), "minimized")

handle_window_deminiaturized(r, wid, needs_probe) ==
    IF r.windows[wid] = None THEN Decided(r, "unknown")
    ELSE IF ~Unwrap(r.windows[wid]).is_minimized THEN Decided(r, "ignored")
    ELSE
    LET window == Unwrap(r.windows[wid])
        frame == window.frame_monotonic
        server_id == window.sys_id
        is_manageable == compute_window_manageability(server_id, FALSE, window.is_standard)
        r1 == [r EXCEPT !.windows[wid] =
                  Some([Unwrap(@) EXCEPT !.is_minimized = FALSE,
                                         !.is_manageable = is_manageable])]
        active_space == active_space_for_window(frame, server_id)
    IN IF is_manageable /\ IsSome(active_space)
       THEN Decided(maybe_dispatch_window_added_in_space(
                        r1, wid, Unwrap(active_space), needs_probe), "deminiaturized")
       ELSE Decided(r1, "deminiaturized")

\* every size the window answers with instead of the target's is a cap
infer_constraint_from_target_loose(new_frame, target) ==
    WindowConstraint(IF is_within(new_frame.w, Tol, target.w) THEN None ELSE Some(new_frame.w),
                     IF is_within(new_frame.h, Tol, target.h) THEN None ELSE Some(new_frame.h))

\* infer_constraint_from_target
infer_constraint_from_target(new_frame, target) ==
    LET max_w == IF is_within(new_frame.w, Tol, target.w) THEN None
                 ELSE IF new_frame.w < target.w THEN Some(new_frame.w)
                 ELSE None
        max_h == IF is_within(new_frame.h, Tol, target.h) THEN None
                 ELSE IF new_frame.h < target.h THEN Some(new_frame.h)
                 ELSE None
    IN WindowConstraint(max_w, max_h)

Min(a, b) == IF a <= b THEN a ELSE b

\* the newest cap replaces the stored one
merge_axis_latest(existing, inferred) ==
    IF IsSome(inferred) THEN inferred ELSE existing

merge_axis(existing, inferred) ==
    IF IsSome(existing) /\ IsSome(inferred)
    THEN Some(Min(Unwrap(existing), Unwrap(inferred)))
    ELSE IF IsSome(existing) THEN existing
    ELSE IF IsSome(inferred) THEN inferred
    ELSE None

merge_constraints(existing, inferred) ==
    IF IsSome(existing)
    THEN WindowConstraint(merge_axis(Unwrap(existing).max_w, inferred.max_w),
                          merge_axis(Unwrap(existing).max_h, inferred.max_h))
    ELSE inferred

\* LayoutEngine::window_constraint / set_window_constraint
window_constraint(r, wid) == r.constraints[wid]

set_window_constraint(r, wid, constraint) ==
    [r EXCEPT !.constraints[wid] = Some(constraint)]

\* the notified frame is not stored
set_frame_forgotten(r, wid, frame) == r

set_frame(r, wid, frame) ==
    [r EXCEPT !.windows[wid] = Some([Unwrap(@) EXCEPT !.frame_monotonic = frame])]

\* Reactor::update_layout_or_warn
update_layout_or_warn(r) == [r EXCEPT !.commands = Append(@, LayoutUpdate)]

\* the spaces whose active layout mode is Scrolling
ScrollingSpaces == {3}

\* a geometry-only change of space is announced under every layout mode
keep_assigned_never(r, wid, old_space) == FALSE

\* handle_window_frame_changed, lines 429-439: the layout mode of the old
\* space is Scrolling and wid is tiled there, not floating and still assigned
\* to a workspace of the space; the layout tiles the windows it manages
keep_assigned_for_scrolling(r, wid, old_space) ==
    /\ IsSome(old_space)
    /\ Unwrap(old_space) \in ScrollingSpaces
    /\ is_effectively_manageable(Unwrap(r.windows[wid]))

\* the answer of a probe leaves the pending request of the window in place
probe_resolution_keeps_pending(r, wid, new_frame, server_id, probe, needs_probe) ==
    LET r1 == set_frame(r, wid, new_frame)
        constraint == merge_constraints(window_constraint(r1, wid),
                                        infer_constraint_from_target(new_frame, probe.target))
        r2 == set_window_constraint(r1, wid, constraint)
    IN Decided([r2 EXCEPT !.constraint_probes[wid] = None], "probe")

\* the answer of a probe forgets the whole transaction record of the window
probe_resolution_purges(r, wid, new_frame, server_id, probe, needs_probe) ==
    LET r1 == set_frame(r, wid, new_frame)
        r2 == IF IsSome(server_id) THEN purge_for_window(r1, Unwrap(server_id)) ELSE r1
        constraint == merge_constraints(window_constraint(r2, wid),
                                        infer_constraint_from_target(new_frame, probe.target))
        r3 == set_window_constraint(r2, wid, constraint)
    IN Decided([r3 EXCEPT !.constraint_probes[wid] = None], "probe")

\* handle_window_frame_changed, lines 217-244: the answer of a constraint probe
probe_resolution(r, wid, new_frame, server_id, probe, needs_probe) ==
    LET r1 == set_frame(r, wid, new_frame)
        r2 == IF IsSome(server_id) THEN remove_for_window(r1, Unwrap(server_id)) ELSE r1
        inferred == infer_constraint_from_target(new_frame, probe.target)
        existing == window_constraint(r2, wid)
        constraint == merge_constraints(existing, inferred)
        r3 == set_window_constraint(r2, wid, constraint)
        r4 == [r3 EXCEPT !.constraint_probes[wid] = None]
        space == active_space_for_window(new_frame, server_id)
    IN IF wid \in Apps THEN Decided(process_windows_for_app_rules(r4, wid), "probe")
       ELSE IF IsSome(space)
       THEN Decided(maybe_dispatch_window_added_in_space(
                        r4, wid, Unwrap(space), needs_probe), "probe")
       ELSE Decided(r4, "probe")

\* a constrained resize is announced even when it tightens nothing
constrained_resize_announced(r, wid, new_frame, server_id, wsid, target) ==
    LET r1 == remove_for_window(set_frame(r, wid, new_frame), wsid)
        constraint == merge_constraints(window_constraint(r1, wid),
                                        infer_constraint_from_target(new_frame, target))
        r2 == set_window_constraint(r1, wid, constraint)
    IN IF ~origin_same_as(new_frame, target) THEN Decided(r1, "intermediate")
       ELSE IF IsSome(active_space_for_window(new_frame, server_id))
       THEN Decided(send_layout_event(r2, WindowResized(wid, target, new_frame)),
                    "constrained_resize")
       ELSE Decided(r2, "constrained_offscreen")

\* handle_window_frame_changed, lines 283-336: the window answered a resize
\* with another size than the one requested
constrained_resize(r, wid, new_frame, server_id, wsid, target) ==
    LET r1 == remove_for_window(set_frame(r, wid, new_frame), wsid)
        origin_matches_target == origin_same_as(new_frame, target)
        inferred == infer_constraint_from_target(new_frame, target)
        existing_constraint == window_constraint(r1, wid)
        constraint == merge_constraints(existing_constraint, inferred)
        r2 == set_window_constraint(r1, wid, constraint)
    IN IF ~origin_matches_target THEN Decided(r1, "intermediate")
       ELSE IF existing_constraint = Some(constraint)
       THEN Decided(r2, "constrained_duplicate")
       ELSE IF IsSome(active_space_for_window(new_frame, server_id))
       THEN Decided(send_layout_event(r2, WindowResized(wid, target, new_frame)),
                    "constrained_resize")
       ELSE Decided(r2, "constrained_offscreen")

\* any frame that answers the pending request settles it
self_triggered_settles(r, wid, new_frame, server_id, pending_target, change_kind) ==
    IF IsSome(pending_target)
    THEN IF change_kind = "Resize" /\ ~size_same_as(new_frame, Unwrap(pending_target))
         THEN constrained_resize(r, wid, new_frame, server_id, Unwrap(server_id),
                                 Unwrap(pending_target))
         ELSE Decided(remove_for_window(set_frame(r, wid, new_frame), Unwrap(server_id)),
                      "self_match")
    ELSE Decided(set_frame(r, wid, new_frame), "missing_tx_record")

\* a frame that matches the pending target is committed and the target kept
self_triggered_keeps_target(r, wid, new_frame, server_id, pending_target, change_kind) ==
    IF IsSome(pending_target)
    THEN IF same_as(new_frame, Unwrap(pending_target))
         THEN Decided(set_frame(r, wid, new_frame), "self_match")
         ELSE IF change_kind = "Resize" /\ ~size_same_as(new_frame, Unwrap(pending_target))
         THEN constrained_resize(r, wid, new_frame, server_id, Unwrap(server_id),
                                 Unwrap(pending_target))
         ELSE Decided(r, "other_mismatch")
    ELSE Decided(set_frame(r, wid, new_frame), "missing_tx_record")

\* handle_window_frame_changed, lines 271-358: the notification answers the
\* pending request of the window
self_triggered(r, wid, new_frame, server_id, pending_target, change_kind) ==
    LET window == Unwrap(r.windows[wid])
    IN
    IF IsSome(pending_target)
    THEN
      LET wsid == Unwrap(server_id)
          target == Unwrap(pending_target)
      IN
      IF same_as(new_frame, target)
      THEN LET r1 == IF ~same_as(window.frame_monotonic, new_frame)
                     THEN set_frame(r, wid, new_frame)
                     ELSE r
           IN Decided(remove_for_window(r1, wsid), "self_match")
      ELSE IF change_kind = "Resize" /\ ~size_same_as(new_frame, target)
      THEN constrained_resize(r, wid, new_frame, server_id, wsid, target)
      ELSE Decided(r, "other_mismatch")
    ELSE IF ~same_as(window.frame_monotonic, new_frame)
    THEN LET r1 == set_frame(r, wid, new_frame)
         IN Decided(IF IsSome(window.sys_id)
                    THEN remove_for_window(r1, Unwrap(window.sys_id))
                    ELSE r1, "missing_tx_record")
    ELSE Decided(r, "missing_tx_record")

\* a requested change is synced and the pending target left in place
requested_sync_keeps_target(r, wid, new_frame, server_id) ==
    Decided(IF ~same_as(Unwrap(r.windows[wid]).frame_monotonic, new_frame)
            THEN set_frame(r, wid, new_frame)
            ELSE r, "requested")

\* handle_window_frame_changed, lines 360-375
requested_sync(r, wid, new_frame, server_id) ==
    LET r1 == IF ~same_as(Unwrap(r.windows[wid]).frame_monotonic, new_frame)
              THEN set_frame(r, wid, new_frame)
              ELSE r
    IN Decided(IF IsSome(server_id) THEN remove_for_window(r1, Unwrap(server_id)) ELSE r1,
               "requested")

\* a drag is recognised only once a session exists
is_dragging_ignoring_mouse(r, effective_mouse_state) == is_in_drag(r)

\* a drag in progress does not route a change made with the mouse up
is_dragging_mouse_only(r, effective_mouse_state) == effective_mouse_state = Some("Down")

\* handle_window_frame_changed, line 396
is_dragging(r, effective_mouse_state) ==
    effective_mouse_state = Some("Down") \/ is_in_drag(r)

\* a change within one placement is never announced
size_only_change_silent(r, wid, old_frame, new_frame, old_active) ==
    IF ~size_same_as(old_frame, new_frame)
    THEN Decided(r, "resized_inactive")
    ELSE Decided(r, "moved")

\* handle_window_frame_changed, lines 472-497: the placement is unchanged
size_only_change(r, wid, old_frame, new_frame, old_active) ==
    IF ~size_same_as(old_frame, new_frame)
    THEN IF old_active
         THEN Decided(send_layout_event(r, WindowResized(wid, old_frame, new_frame)),
                      "resized")
         ELSE Decided(r, "resized_inactive")
    ELSE Decided(r, "moved")

\* a change is ignored whenever the new placement is not active
neither_active_new(old_active, new_active) == ~new_active

\* handle_window_frame_changed, line 382
neither_active(old_active, new_active) == ~old_active /\ ~new_active

\* handle_window_frame_changed, lines 377-497: a change nobody asked for
external_change(r, wid, new_frame, server_id, old_frame, effective_mouse_state, needs_probe) ==
    LET old_space == best_space_for_window(old_frame, server_id)
        new_space == best_space_for_window(new_frame, server_id)
        old_active == IsSome(old_space) /\ is_space_active(Unwrap(old_space))
        new_active == IsSome(new_space) /\ is_space_active(Unwrap(new_space))
    IN
    IF neither_active(old_active, new_active) THEN Decided(r, "inactive_space")
    ELSE IF same_as(Unwrap(r.windows[wid]).frame_monotonic, new_frame)
    THEN Decided(r, "duplicate")
    ELSE
    LET r1 == set_frame(r, wid, new_frame)
        dragging == is_dragging(r1, effective_mouse_state)
        is_resize == ~size_same_as(old_frame, new_frame)
    IN
    IF dragging
    THEN LET r2 == update_active_drag(ensure_active_drag(r1, wid, old_frame),
                                      wid, new_frame)
         IN IF is_resize
            THEN IF IsSome(active_space_for_window(new_frame, server_id))
                 THEN Decided(send_layout_event(
                                  r2, WindowResized(wid, old_frame, new_frame)), "drag")
                 ELSE Decided(r2, "drag")
            ELSE Decided(maybe_swap_on_drag(r2, wid, new_frame), "drag")
    ELSE
    LET r2 == [r1 EXCEPT !.skip_layout_for_window = Some(wid)]
    IN
    IF old_space # new_space
    THEN IF keep_assigned_for_scrolling(r2, wid, old_space)
         THEN Decided(r2, "scrolling_noise")
         ELSE LET r3 == send_layout_event(r2, WindowRemovedPreserveFloating(wid))
                  r4 == IF new_active
                        THEN maybe_dispatch_window_added_in_space(
                                 r3, wid, Unwrap(new_space), needs_probe)
                        ELSE r3
              IN Decided(update_layout_or_warn(r4), "placement_changed")
    ELSE size_only_change(r2, wid, old_frame, new_frame, old_active)

\* only mission control suppresses
is_suppressed_by_mission_control(r, server_id) == r.mission_control_active

\* handle_window_frame_changed, lines 205-210
is_suppressed(r, server_id) ==
    \/ r.mission_control_active
    \/ (IsSome(server_id) /\ Unwrap(server_id) \in r.changing_screens)

\* handle_window_frame_changed, lines 217-218
probe_matches(probe, last_seen) ==
    IsSome(probe) /\ IsSome(last_seen) /\ Unwrap(last_seen) = Unwrap(probe).txid

\* only a transaction newer than the last one sent counts as an answer
is_triggered_by_newer(has_pending_request, last_seen, last_sent_txid) ==
    has_pending_request /\ IsSome(last_seen) /\ Unwrap(last_seen) > last_sent_txid

\* handle_window_frame_changed, lines 255-256
is_triggered_by_rift(has_pending_request, last_seen, last_sent_txid) ==
    has_pending_request /\ last_seen = Some(last_sent_txid)

\* the mouse does not override a notification that answers a request
is_drag_override_never(effective_mouse_state, triggered_by_rift) == FALSE

\* handle_window_frame_changed, line 258
is_drag_override(effective_mouse_state, triggered_by_rift) ==
    effective_mouse_state = Some("Down") /\ triggered_by_rift

\* only an echo of an earlier transaction is stale
is_stale_echo_older(has_pending_request, last_seen, last_sent_txid) ==
    has_pending_request /\ IsSome(last_seen) /\ Unwrap(last_seen) < last_sent_txid

\* handle_window_frame_changed, line 266
is_stale_echo(has_pending_request, last_seen, last_sent_txid) ==
    has_pending_request /\ IsSome(last_seen) /\ Unwrap(last_seen) # last_sent_txid

\* handle_window_frame_changed, lines 199-498: the closure that decides the event
frame_changed_result(r, wid, new_frame, last_seen, requested, change_kind, effective_mouse_state, needs_probe) ==
    IF r.windows[wid] = None THEN Decided(r, "unknown")
    ELSE
    LET window == Unwrap(r.windows[wid])
        server_id == window.sys_id
        old_frame == window.frame_monotonic
        probe == r.constraint_probes[wid]
    IN
    IF is_suppressed(r, server_id) THEN Decided(r, "suppressed")
    ELSE IF probe_matches(probe, last_seen)
    THEN probe_resolution(r, wid, new_frame, server_id, Unwrap(probe), needs_probe)
    ELSE
    LET pending_target == IF IsSome(server_id)
                          THEN get_target_frame(r, Unwrap(server_id))
                          ELSE None
        last_sent_txid == IF IsSome(server_id)
                          THEN get_last_sent_txid(r, Unwrap(server_id))
                          ELSE DefaultTx
        pending == IsSome(pending_target)
        by_rift == is_triggered_by_rift(pending, last_seen, last_sent_txid)
        drag_override == is_drag_override(effective_mouse_state, by_rift)
        r1 == IF drag_override THEN remove_for_window(r, Unwrap(server_id)) ELSE r
        has_pending_request == pending /\ ~drag_override
        triggered_by_rift == by_rift /\ ~drag_override
    IN
    IF is_stale_echo(has_pending_request, last_seen, last_sent_txid)
    THEN Decided(r1, "stale_echo")
    ELSE IF triggered_by_rift
    THEN self_triggered(r1, wid, new_frame, server_id, pending_target, change_kind)
    ELSE IF requested
    THEN requested_sync(r1, wid, new_frame, server_id)
    ELSE external_change(r1, wid, new_frame, server_id, old_frame,
                         effective_mouse_state, needs_probe)

\* a mouse-up notification does not finish the drag
handle_mouse_up_if_needed_never(r, mouse_state) == r

\* a mouse-up notification finishes a drag only while no swap is pending
handle_mouse_up_if_needed_active_only(r, mouse_state) ==
    IF mouse_state = Some("Up")
       /\ (r.drag_state.tag = "Active" \/ IsSome(r.skip_layout_for_window))
    THEN handle_mouse_up(r)
    ELSE r

\* handle_mouse_up_if_needed
handle_mouse_up_if_needed(r, mouse_state) ==
    IF mouse_state = Some("Up")
       /\ (r.drag_state.tag \in {"Active", "PendingSwap"}
           \/ IsSome(r.skip_layout_for_window))
    THEN handle_mouse_up(r)
    ELSE r

handle_window_frame_changed(r, wid, new_frame, last_seen, requested, change_kind, effective_mouse_state, needs_probe) ==
    handle_mouse_up_if_needed(
        frame_changed_result(r, wid, new_frame, last_seen, requested, change_kind,
                             effective_mouse_state, needs_probe),
        effective_mouse_state)

(***************************************************************************)
(* CommandEventHandler.                                                    *)
(***************************************************************************)
\* the frame of the screen that shows a space
ScreenFrame(space) == Rect((space - 1) * ScreenW, 0, ScreenW, ScreenH)

Max(a, b) == IF a >= b THEN a ELSE b

\* the window's frame centred on the destination screen and kept inside it
centered_on(window_frame, dest_rect) ==
    LET x == (dest_rect.x + dest_rect.w \div 2) - window_frame.w \div 2
        y == (dest_rect.y + dest_rect.h \div 2) - window_frame.h \div 2
    IN [window_frame EXCEPT
          !.x = Min(Max(x, dest_rect.x), dest_rect.x + dest_rect.w - window_frame.w),
          !.y = Min(Max(y, dest_rect.y), dest_rect.y + dest_rect.h - window_frame.h)]

\* Request::SetWindowFrame
SetWindowFrame(wid, frame, txid) ==
    [type |-> "SetWindowFrame", wid |-> wid, frame |-> frame, txid |-> txid]

\* app.handle.send
send_request(r, request) == [r EXCEPT !.requests = Append(@, request)]

\* the request goes out under the txid the store held before the command
send_under_previous_txid(r, window_id, wsid, target_frame) ==
    send_request(generate_next_txid(r, wsid),
                 SetWindowFrame(window_id, target_frame, get_last_sent_txid(r, wsid)))

\* handle_command_reactor_move_window_to_display, lines 461-469
send_under_new_txid(r, window_id, wsid, target_frame) ==
    LET r1 == generate_next_txid(r, wsid)
        txid == get_last_sent_txid(r1, wsid)
        r2 == set_last_sent_txid(r1, wsid, txid)
    IN send_request(r2, SetWindowFrame(window_id, target_frame, txid))

\* handle_command_reactor_move_window_to_display: resolved_window is the
\* window the selection settled on, target_screen the screen the selector
\* names (none when it names no screen)
\* (the layout engine's move_window_to_space and the handling of its response
\* act on layout state that is not part of this model)
move_window_to_display(r, resolved_window, target_screen) ==
    IF resolved_window = None THEN Decided(r, "ignored")
    ELSE IF r.windows[Unwrap(resolved_window)] = None THEN Decided(r, "unknown")
    ELSE
    LET window_id == Unwrap(resolved_window)
        window_server_id == Unwrap(r.windows[window_id]).sys_id
        window_frame == Unwrap(r.windows[window_id]).frame_monotonic
        source_space == best_space_for_window(window_frame, window_server_id)
    IN
    IF source_space = None THEN Decided(r, "ignored")
    ELSE IF ~is_space_active(Unwrap(source_space)) THEN Decided(r, "ignored")
    ELSE IF target_screen = None THEN Decided(r, "ignored")
    ELSE IF ~is_space_active(Unwrap(target_screen)) THEN Decided(r, "ignored")
    ELSE IF target_screen = source_space THEN Decided(r, "ignored")
    ELSE
    LET target_frame == centered_on(window_frame, ScreenFrame(Unwrap(target_screen)))
        r1 == IF window_id \in Apps
              THEN IF IsSome(window_server_id)
                   THEN send_under_new_txid(r, window_id, Unwrap(window_server_id), target_frame)
                   ELSE send_request(r, SetWindowFrame(window_id, target_frame, DefaultTx))
              ELSE r
        r2 == set_frame(r1, window_id, target_frame)
    IN Decided(update_layout_or_warn(r2), "moved_to_display")

\* the command is carried out while a drag is in progress
handle_command_reactor_move_window_to_display_during_drag(r, resolved_window, target_screen) ==
    move_window_to_display(r, resolved_window, target_screen)

\* handle_command_reactor_move_window_to_display, lines 350-358: the command
\* is ignored while a drag is in progress
handle_command_reactor_move_window_to_display(r, resolved_window, target_screen) ==
    IF is_in_drag(r) THEN Decided(r, "ignored")
    ELSE move_window_to_display(r, resolved_window, target_screen)

\* the titles an application gives its windows
Titles == {"", "renamed"}

\* handle_window_title_changed; the broadcast of the change and the
\* re-evaluation of the app rules for a known window touch none of the fields
\* modelled here
handle_window_title_changed(r, wid, new_title) ==
    IF r.windows[wid] = None THEN Decided(r, "unknown")
    ELSE IF Unwrap(r.windows[wid]).title = new_title THEN Decided(r, "ignored")
    ELSE Decided([r EXCEPT !.windows[wid] = Some([Unwrap(@) EXCEPT !.title = new_title])],
                 "retitled")

\* an outbound frame-change request of the layout: begin, then record_target
send_frame_request(r, wid, target) ==
    LET wsid == Unwrap(Unwrap(r.windows[wid]).sys_id)
        r1 == generate_next_txid(r, wsid)
    IN Decided(store_txid(r1, wsid, get_last_sent_txid(r1, wsid), target), "request")

\* ConstraintProbeRegistry::start
start_constraint_probe(r, wid, target) ==
    LET wsid == Unwrap(Unwrap(r.windows[wid]).sys_id)
        r1 == generate_next_txid(r, wsid)
    IN Decided([r1 EXCEPT !.constraint_probes[wid] =
                    Some(ConstraintProbe(get_last_sent_txid(r1, wsid), target))],
               "probe_started")

\* the space manager marks the windows whose display is being reconfigured
set_changing_screens(r, wsids) ==
    Decided([r EXCEPT !.changing_screens = wsids], "changing_screens")

\* Reactor::set_mission_control_active
set_mission_control_active(r, active) ==
    Decided([r EXCEPT !.mission_control_active = active], "mission_control")

(***************************************************************************)
(* SystemEventHandler: the menus of the applications.                      *)
(***************************************************************************)
\* MenuState
Closed == [tag |-> "Closed", depth |-> 0]
Open(depth) == [tag |-> "Open", depth |-> depth]

\* Reactor::update_focus_follows_mouse_state acts on the event tap, which is
\* not part of this model
update_focus_follows_mouse_state(r) == r

\* every menu-opened notification opens one more menu
handle_menu_opened_nested(r) ==
    Decided([r EXCEPT !.menu_state = Open(@.depth + 1)], "menu_opened")

\* handle_menu_opened
handle_menu_opened(r) ==
    LET r1 == [r EXCEPT !.menu_state =
                  IF r.menu_state = Closed THEN Open(1) ELSE Open(r.menu_state.depth)]
    IN Decided(update_focus_follows_mouse_state(r1), "menu_opened")

\* handle_menu_closed
handle_menu_closed(r) ==
    IF r.menu_state = Closed
    THEN Decided(update_focus_follows_mouse_state(r), "menu_closed")
    ELSE Decided(update_focus_follows_mouse_state([r EXCEPT !.menu_state = Closed]),
                 "menu_closed")

(***************************************************************************)
(* MissionControlActor: the actor that shows and dismisses the overlay.    *)
(* A handler is an operator from the actor (a record of its fields         *)
(* overlay, mission_control_active and current_view_mode) to the actor it  *)
(* leaves.  What the actor sends to the Reactor and to the overlay is not  *)
(* part of this model.                                                     *)
(***************************************************************************)
\* MissionControlActor::new
MissionControlActor ==
    [overlay |-> FALSE, mission_control_active |-> FALSE, current_view_mode |-> None,
     running |-> FALSE]

\* actor::mission_control::Event
ActorEvents == {"ShowAll", "ShowCurrent", "Dismiss", "RefreshCurrentWorkspace"}

\* MissionControlAction
MissionControlActions == {"Dismiss", "SwitchToWorkspace", "FocusWindow"}

\* MissionControlViewMode
MissionControlViewModes == {"AllWorkspaces", "CurrentWorkspace"}

ensure_overlay(a) == [a EXCEPT !.overlay = TRUE]

\* the overlay is dropped and the actor stays in its view mode
dispose_overlay_keeps_mode(a) ==
    [a EXCEPT !.overlay = FALSE, !.mission_control_active = FALSE]

dispose_overlay(a) ==
    [a EXCEPT !.overlay = FALSE, !.mission_control_active = FALSE,
              !.current_view_mode = None]

\* every action of the overlay ends with dispose_overlay
handle_overlay_action(a, action) == dispose_overlay(a)

show_all_workspaces(a) ==
    ensure_overlay([a EXCEPT !.mission_control_active = TRUE,
                             !.current_view_mode = Some("AllWorkspaces")])

show_current_workspace(a) ==
    ensure_overlay([a EXCEPT !.mission_control_active = TRUE,
                             !.current_view_mode = Some("CurrentWorkspace")])

\* the highlight is refreshed on the overlay, if there is one
refresh_all_workspaces_highlight(a) == a

handle_event(a, event) ==
    CASE event = "ShowAll" ->
           IF a.mission_control_active THEN dispose_overlay(a) ELSE show_all_workspaces(a)
      [] event = "ShowCurrent" ->
           IF a.mission_control_active THEN dispose_overlay(a) ELSE show_current_workspace(a)
      [] event = "Dismiss" -> dispose_overlay(a)
      [] event = "RefreshCurrentWorkspace" ->
           IF a.mission_control_active
           THEN IF a.current_view_mode = Some("CurrentWorkspace")
                THEN show_current_workspace(a)
                ELSE IF a.current_view_mode = Some("AllWorkspaces")
                THEN refresh_all_workspaces_highlight(a)
                ELSE a
           ELSE a

(***************************************************************************)
(* The state machine.                                                      *)
(***************************************************************************)
VARIABLES
    windows, window_ids, store, constraint_probes, constraints,
    drag_state, skip_layout_for_window, mission_control_active, changing_screens,
    menu_state,
    \* the mission-control actor (overlay: whether it holds one; running: its
    \* loop has started) and its inbound queue
    mission_control, rx,
    \* the environment: the window ids handed out so far
    used_wids,
    \* history, kept by the recording actions: per window, the greatest
    \* transaction id of a notification whose frame was committed, and the caps
    \* inferred so far on each axis
    committed_tx, inferred_caps,
    \* history of the drag in progress: how often it came to overlap a swap
    \* target (counted up to MaxOverlaps) and the targets it overlapped
    drag_history,
    \* the notification the Reactor took last from its inbound queue: the parity
    \* of its position in the queue and what the handler decided for it
    delivered,
    \* callers of the WindowTxStore: where each is, the call it is in, the
    \* entry it found under the shard lock, what the call returned; the holder
    \* of each shard's lock
    pc, call, found, ret, lock,
    \* history of next_txid per external id: the id it returned first, the id
    \* it returned last and the greatest it ever returned (the default while
    \* it returned none), and the
    \* greatest it returned since the id's record was last removed or
    \* overwritten with a smaller transaction id
    issued, issued_since

reactor_vars == << windows, window_ids, store, constraint_probes, constraints,
                   drag_state, skip_layout_for_window, mission_control_active,
                   changing_screens, menu_state >>
actor_vars == << mission_control, rx >>
env_vars == << used_wids, committed_tx, inferred_caps, drag_history, delivered >>
caller_vars == << pc, call, found, ret, lock, issued, issued_since >>
vars == << reactor_vars, env_vars, caller_vars, actor_vars >>

Reactor ==
    [windows |-> windows, window_ids |-> window_ids, store |-> store,
     constraint_probes |-> constraint_probes, constraints |-> constraints,
     drag_state |-> drag_state, skip_layout_for_window |-> skip_layout_for_window,
     mission_control_active |-> mission_control_active,
     changing_screens |-> changing_screens, menu_state |-> menu_state,
     events |-> << >>, commands |-> << >>, requests |-> << >>, outcome |-> "none"]

Becomes(r) ==
    /\ windows' = r.windows
    /\ window_ids' = r.window_ids
    /\ store' = r.store
    /\ constraint_probes' = r.constraint_probes
    /\ constraints' = r.constraints
    /\ drag_state' = r.drag_state
    /\ skip_layout_for_window' = r.skip_layout_for_window
    /\ mission_control_active' = r.mission_control_active
    /\ changing_screens' = r.changing_screens
    /\ menu_state' = r.menu_state

\* no transaction id beyond the bound is issued
TxBounded(r) == \A id \in ExtIds : last_txid(r.store, id) <= MaxTx

\* frames: on the active space, the same narrower, and on the inactive space
Wide == Rect(0, 0, 50, 40)
Narrow == Rect(0, 0, 30, 40)
Away == Rect(ScreenW, 0, 50, 40)
AwayNarrow == Rect(ScreenW, 0, 30, 40)
\* Wide moved within its space
Shifted == Rect(10, 0, 50, 40)
\* a frame on the third space
Far == Rect(2 * ScreenW, 0, 50, 40)
Frames == {Wide, Narrow, Away}
\* frames of several sizes at one origin; 49 is within the tolerance of 50
SizedWs == {30, 49, 50}
SizedHs == {30, 40}
SizedFrames == {Rect(0, 0, w, h) : w \in SizedWs, h \in SizedHs}
\* sizes around a target size of 50: smaller by more than the tolerance, by the
\* tolerance, equal, larger by the tolerance, larger by more
InferSizes == {48, 49, 50, 51, 52}
InferFrames == {Rect(0, 0, w, h) : w \in InferSizes, h \in InferSizes}
MouseStates == {None, Some("Up"), Some("Down")}
ChangeKinds == {"Move", "Resize"}

\* DashMap locks the shard a key hashes to
NumShards == 2
Shards == 0..(NumShards - 1)
ShardOf(id) == id % NumShards
NoCaller == None
Idle == [op |-> "idle", id |-> 0, txid |-> DefaultTx, target |-> None]
Call(op, id, txid, target) == [op |-> op, id |-> id, txid |-> txid, target |-> target]

NoCaps == [max_w |-> {}, max_h |-> {}]

\* overlaps of a drag are counted up to MaxOverlaps
MaxOverlaps == 2
NoOverlaps == [entered |-> 0, targets |-> {}]

Init ==
    /\ windows = [w \in Wids |-> None]
    /\ window_ids = [id \in ExtIds |-> None]
    /\ store = [id \in ExtIds |-> None]
    /\ constraint_probes = [w \in Wids |-> None]
    /\ constraints = [w \in Wids |-> None]
    /\ drag_state = Inactive
    /\ skip_layout_for_window = None
    /\ mission_control_active = FALSE
    /\ changing_screens = {}
    /\ menu_state = Closed
    /\ mission_control = MissionControlActor
    /\ rx = << >>
    /\ used_wids = {}
    /\ committed_tx = [w \in Wids |-> None]
    /\ inferred_caps = [w \in Wids |-> NoCaps]
    /\ drag_history = NoOverlaps
    /\ delivered = [seq |-> 0, outcome |-> "none"]
    /\ pc = [c \in Callers |-> "idle"]
    /\ call = [c \in Callers |-> Idle]
    /\ found = [c \in Callers |-> None]
    /\ ret = [c \in Callers |-> None]
    /\ lock = [sh \in Shards |-> NoCaller]
    /\ issued = [id \in ExtIds |-> [first |-> DefaultTx, last |-> DefaultTx, max |-> DefaultTx]]
    /\ issued_since = [id \in ExtIds |-> DefaultTx]

(***************************************************************************)
(* The Reactor's events.  The Reactor handles one event at a time; each    *)
(* action is one event handled to its end.  The parameters are the sets    *)
(* the event's payload is drawn from.                                      *)
(***************************************************************************)
\* whether the layout asks for the size limits of wid (it may only when the
\* answer matters to maybe_start_constraint_probe)
ProbeOracle(r, wid) == IF CanStartProbe(r, wid, TRUE) THEN BOOLEAN ELSE {FALSE}

\* the external id the window server gave to window wid
SysId(wid) == ExtBase + wid

\* the last transaction id sent for wid (the default for a window that is
\* not tracked or has no external id)
LastSentTo(r, wid) ==
    IF IsSome(r.windows[wid]) /\ IsSome(Unwrap(r.windows[wid]).sys_id)
    THEN get_last_sent_txid(r, Unwrap(Unwrap(r.windows[wid]).sys_id))
    ELSE DefaultTx

\* an application reports in last_seen a transaction id it was sent
Seen(r, wid, last_seen) ==
    IsSome(last_seen) => Unwrap(last_seen) <= LastSentTo(r, wid)

\* the Reactor is left as the handler left it
Handled(r) == TxBounded(r) /\ Becomes(r)

WindowCreated(max_wid, frames, with_sys_id) ==
    \E frame \in frames, has_id \in with_sys_id, needs_probe \in BOOLEAN :
      LET wid == Cardinality(used_wids) + 1
          sys_id == IF has_id THEN Some(SysId(wid)) ELSE None
      IN /\ wid <= max_wid
         /\ needs_probe => has_id
         /\ \E r \in {handle_window_created(Reactor, wid, frame, sys_id, FALSE, TRUE, needs_probe)} :
              Handled(r)
         /\ used_wids' = used_wids \cup {wid}
         /\ UNCHANGED << committed_tx, inferred_caps, drag_history, delivered, caller_vars, actor_vars >>

MoveWindowToDisplay(wids, screens) ==
    \E resolved_window \in Option(wids), target_screen \in Option(screens) :
      /\ \E r \in {handle_command_reactor_move_window_to_display(
                       Reactor, resolved_window, target_screen)} :
           Handled(r)
      /\ UNCHANGED << env_vars, caller_vars, actor_vars >>

\* a window is created under an external id the window server chose, which
\* may be the id it gave to an earlier window
WindowCreatedWith(max_wid, frames, sys_ids) ==
    \E frame \in frames, sys_id \in sys_ids :
      LET wid == Cardinality(used_wids) + 1
      IN /\ wid <= max_wid
         /\ \E r \in {handle_window_created(Reactor, wid, frame, sys_id, FALSE, TRUE, FALSE)} :
              Handled(r)
         /\ used_wids' = used_wids \cup {wid}
         /\ UNCHANGED << committed_tx, inferred_caps, drag_history, delivered, caller_vars, actor_vars >>

WindowDestroyed(wids) ==
    \E wid \in wids :
      /\ \E r \in {handle_window_destroyed(Reactor, wid)} : Handled(r)
      /\ UNCHANGED << env_vars, caller_vars, actor_vars >>

WindowMinimized(wids) ==
    \E wid \in wids :
      /\ \E r \in {handle_window_minimized(Reactor, wid)} : Handled(r)
      /\ UNCHANGED << env_vars, caller_vars, actor_vars >>

WindowDeminiaturized(wids) ==
    \E wid \in wids :
      \E needs_probe \in ProbeOracle(Reactor, wid) :
        /\ \E r \in {handle_window_deminiaturized(Reactor, wid, needs_probe)} : Handled(r)
        /\ UNCHANGED << env_vars, caller_vars, actor_vars >>

WindowFrameChanged(wids, frames, seens, requesteds, kinds, mouse_states) ==
    \E wid \in wids, new_frame \in frames, last_seen \in seens,
       requested \in requesteds, change_kind \in kinds, mouse_state \in mouse_states :
      \E cur \in {Reactor} :
        \E needs_probe \in ProbeOracle(cur, wid) :
          /\ Seen(cur, wid, last_seen)
          /\ \E r \in {handle_window_frame_changed(cur, wid, new_frame, last_seen, requested, change_kind, mouse_state, needs_probe)} :
               Handled(r)
          /\ UNCHANGED << env_vars, caller_vars, actor_vars >>

SendFrameRequest(wids, targets) ==
    \E wid \in wids, target \in targets :
      /\ IsSome(windows[wid])
      /\ IsSome(Unwrap(windows[wid]).sys_id)
      /\ \E r \in {send_frame_request(Reactor, wid, target)} : Handled(r)
      /\ UNCHANGED << env_vars, caller_vars, actor_vars >>

StartConstraintProbe(wids) ==
    \E wid \in wids :
      /\ IsSome(windows[wid])
      /\ IsSome(Unwrap(windows[wid]).sys_id)
      /\ is_effectively_manageable(Unwrap(windows[wid]))
      /\ LET space == active_space_for_window(Unwrap(windows[wid]).frame_monotonic,
                                              Unwrap(windows[wid]).sys_id)
         IN /\ IsSome(space)
            /\ \E r \in {start_constraint_probe(Reactor, wid, ProbeTarget(Unwrap(space)))} :
                 Handled(r)
      /\ UNCHANGED << env_vars, caller_vars, actor_vars >>

ScreensChanging(ids) ==
    \E wsids \in SUBSET ids :
      /\ wsids # changing_screens
      /\ \E r \in {set_changing_screens(Reactor, wsids)} : Handled(r)
      /\ UNCHANGED << env_vars, caller_vars, actor_vars >>

SetMissionControlActive ==
    \E active \in BOOLEAN :
      /\ active # mission_control_active
      /\ \E r \in {set_mission_control_active(Reactor, active)} : Handled(r)
      /\ UNCHANGED << env_vars, caller_vars, actor_vars >>

(***************************************************************************)
(* Recording variant of the notification: the same handler, and the        *)
(* history of what it committed and inferred.                              *)
(***************************************************************************)
\* the outcomes that leave the notified frame committed as frame_monotonic
CommitOutcomes ==
    {"probe", "self_match", "intermediate", "constrained_duplicate",
     "constrained_resize", "constrained_offscreen", "missing_tx_record",
     "requested", "drag", "scrolling_noise", "placement_changed", "resized",
     "resized_inactive", "moved"}

\* the outcomes that infer a constraint from a pending target
ConstrainedOutcomes ==
    {"constrained_duplicate", "constrained_resize", "constrained_offscreen"}

MaxOpt(o, t) == IF IsSome(o) /\ Unwrap(o) >= t THEN o ELSE Some(t)

OptSet(o) == IF IsSome(o) THEN {Unwrap(o)} ELSE {}

\* the target the handler inferred a constraint against, if it inferred one
InferredAgainst(cur, wid, r) ==
    IF r.outcome = "probe" THEN Some(Unwrap(cur.constraint_probes[wid]).target)
    ELSE IF r.outcome \in ConstrainedOutcomes
    THEN get_target_frame(cur, Unwrap(Unwrap(cur.windows[wid]).sys_id))
    ELSE None

Recorded(cur, wid, new_frame, last_seen, r) ==
    /\ committed_tx' =
         IF IsSome(last_seen) /\ r.outcome \in CommitOutcomes
            /\ Unwrap(r.windows[wid]).frame_monotonic = new_frame
         THEN [committed_tx EXCEPT ![wid] = MaxOpt(@, Unwrap(last_seen))]
         ELSE committed_tx
    /\ inferred_caps' =
         LET against == InferredAgainst(cur, wid, r)
         IN IF IsSome(against)
            THEN LET c == infer_constraint_from_target(new_frame, Unwrap(against))
                 IN [inferred_caps EXCEPT
                       ![wid] = [max_w |-> @.max_w \cup OptSet(c.max_w),
                                 max_h |-> @.max_h \cup OptSet(c.max_h)]]
            ELSE inferred_caps

WindowFrameChangedRecorded(wids, frames, seens, requesteds, kinds, mouse_states) ==
    \E wid \in wids, new_frame \in frames, last_seen \in seens,
       requested \in requesteds, change_kind \in kinds, mouse_state \in mouse_states :
      \E cur \in {Reactor} :
        \E needs_probe \in ProbeOracle(cur, wid) :
          /\ Seen(cur, wid, last_seen)
          /\ \E r \in {handle_window_frame_changed(cur, wid, new_frame, last_seen, requested, change_kind, mouse_state, needs_probe)} :
               Handled(r) /\ Recorded(cur, wid, new_frame, last_seen, r)
          /\ UNCHANGED << used_wids, drag_history, delivered, caller_vars, actor_vars >>

\* the history of the drag after a notification left the Reactor as r: none
\* once the drag is over or another window is dragged, one more overlap when
\* the drag came to a swap target it was not pending on
Overlapped(cur, r) ==
    IF r.drag_state.tag = "Inactive" THEN NoOverlaps
    ELSE LET fresh == cur.drag_state.tag = "Inactive" \/ dragged(cur) # dragged(r)
             before == IF fresh THEN NoOverlaps ELSE drag_history
         IN IF /\ r.drag_state.tag = "PendingSwap"
               /\ (fresh \/ r.drag_state.target # cur.drag_state.target)
            THEN [entered |-> Min(before.entered + 1, MaxOverlaps),
                  targets |-> before.targets \cup {Unwrap(r.drag_state.target)}]
            ELSE before

\* a notification that bears the last-sent txid of its window is taken from
\* the inbound queue and handled; the mouse is not down
Acknowledged(wids, frames, kinds) ==
    \E wid \in wids, new_frame \in frames, change_kind \in kinds :
      \E cur \in {Reactor} :
        /\ IsSome(windows[wid])
        /\ IsSome(Unwrap(windows[wid]).sys_id)
        /\ \E r \in {handle_window_frame_changed(cur, wid, new_frame, Some(LastSentTo(cur, wid)), FALSE, change_kind, None, FALSE)} :
             /\ Handled(r)
             /\ delivered' = [seq |-> 1 - delivered.seq, outcome |-> r.outcome]
        /\ UNCHANGED << used_wids, committed_tx, inferred_caps, drag_history, caller_vars, actor_vars >>

WindowFrameChangedDragged(wids, frames, mouse_states) ==
    \E wid \in wids, new_frame \in frames, mouse_state \in mouse_states :
      \E cur \in {Reactor} :
        /\ \E r \in {handle_window_frame_changed(cur, wid, new_frame, None, FALSE, "Move", mouse_state, FALSE)} :
             Handled(r) /\ drag_history' = Overlapped(cur, r)
        /\ UNCHANGED << used_wids, committed_tx, inferred_caps, delivered, caller_vars, actor_vars >>

MenuOpened ==
    /\ \E r \in {handle_menu_opened(Reactor)} : Handled(r)
    /\ UNCHANGED << env_vars, caller_vars, actor_vars >>

MenuClosed ==
    /\ \E r \in {handle_menu_closed(Reactor)} : Handled(r)
    /\ UNCHANGED << env_vars, caller_vars, actor_vars >>

\* MissionControlActor::run: the overlay is made, then the loop starts
ActorRun ==
    /\ ~mission_control.running
    /\ mission_control' = [ensure_overlay(mission_control) EXCEPT !.running = TRUE]
    /\ UNCHANGED << rx, reactor_vars, env_vars, caller_vars >>

\* an event is sent to the actor
ActorSend(events) ==
    \E event \in events :
      /\ Len(rx) < MaxQueue
      /\ rx' = Append(rx, event)
      /\ UNCHANGED << mission_control, reactor_vars, env_vars, caller_vars >>

\* the loop of run takes the next event of the queue
ActorReceive ==
    /\ mission_control.running
    /\ rx # << >>
    /\ mission_control' = handle_event(mission_control, Head(rx))
    /\ rx' = Tail(rx)
    /\ UNCHANGED << reactor_vars, env_vars, caller_vars >>

\* the overlay calls the action handler the actor gave it
OverlayAction(actions) ==
    \E action \in actions :
      /\ mission_control.overlay
      /\ mission_control' = handle_overlay_action(mission_control, action)
      /\ UNCHANGED << rx, reactor_vars, env_vars, caller_vars >>

(***************************************************************************)
(* Transaction reconciliation of one window: requests, their echoes, and   *)
(* changes nobody asked for.                                               *)
(***************************************************************************)
Next ==
    \/ WindowCreated(1, Frames, {TRUE})
    \/ WindowDestroyed({1})
    \/ SendFrameRequest({1}, Frames)
    \/ WindowFrameChanged({1}, Frames, Option(TxIds), BOOLEAN, ChangeKinds, {None, Some("Down")})

Spec == Init /\ [][Next]_vars

\* the same, with the history of commits
HistoryNext ==
    \/ WindowCreated(1, Frames, {TRUE})
    \/ SendFrameRequest({1}, Frames)
    \/ WindowFrameChangedRecorded({1}, Frames, Option(TxIds), BOOLEAN, {"Move"}, {None})

HistorySpec == Init /\ [][HistoryNext]_vars

(***************************************************************************)
(* Dragging among two windows: changes nobody asked for, with the mouse    *)
(* down or up, and windows that go away.                                   *)
(***************************************************************************)
DragNext ==
    \/ WindowCreated(MaxWindows, Frames, {TRUE})
    \/ WindowDestroyed(Wids)
    \/ WindowFrameChanged(Wids, Frames, {None}, {FALSE}, {"Move"}, MouseStates)

DragSpec == Init /\ [][DragNext]_vars

(***************************************************************************)
(* Size limits of one window: probes, requests and the frames the window   *)
(* answers with, and the history of the caps inferred.                     *)
(***************************************************************************)
ConstraintNext ==
    \/ WindowCreated(1, {Wide}, {TRUE})
    \/ SendFrameRequest({1}, SizedFrames)
    \/ StartConstraintProbe({1})
    \/ WindowFrameChangedRecorded({1}, SizedFrames, Option(TxIds), {FALSE}, {"Resize"}, {None})

ConstraintSpec == Init /\ [][ConstraintNext]_vars

\* resizes of one window that is on the active or on the inactive space,
\* answered with the size requested or a narrower one
ResizeFrames == {Wide, Narrow, Away, AwayNarrow}
ResizeNext ==
    \/ WindowCreated(1, {Wide, Away}, {TRUE})
    \/ SendFrameRequest({1}, ResizeFrames)
    \/ WindowFrameChanged({1}, ResizeFrames, Option(TxIds), {FALSE}, {"Resize"}, {None})

ResizeSpec == Init /\ [][ResizeNext]_vars

\* windows that move between the spaces while no mouse button is down
PlacementFrames == {Wide, Away, Far}
PlacementNext ==
    \/ WindowCreated(MaxWindows, PlacementFrames, {TRUE})
    \/ WindowMinimized(Wids)
    \/ WindowDeminiaturized(Wids)
    \/ WindowFrameChanged(Wids, PlacementFrames, {None}, {FALSE}, {"Move"}, {None, Some("Up")})

PlacementSpec == Init /\ [][PlacementNext]_vars

\* the life of constraint probes: windows are created, probed, minimized,
\* restored and destroyed while their applications answer
ProbeNext ==
    \/ WindowCreated(MaxWindows, {Wide}, {TRUE})
    \/ WindowDestroyed(Wids)
    \/ WindowMinimized(Wids)
    \/ WindowDeminiaturized(Wids)
    \/ StartConstraintProbe(Wids)
    \/ WindowFrameChanged(Wids, {Wide, Narrow}, Option(TxIds), {FALSE}, {"Resize"}, {None})

ProbeSpec == Init /\ [][ProbeNext]_vars

\* commands that move windows between displays, among requests of the layout
CommandNext ==
    \/ WindowCreated(MaxWindows, {Wide, Away}, BOOLEAN)
    \/ SendFrameRequest(Wids, {Narrow})
    \/ MoveWindowToDisplay(Wids, Spaces)

CommandSpec == Init /\ [][CommandNext]_vars

\* drags among windows that stay, with the history of the overlaps
DragHistoryNext ==
    \/ WindowCreated(MaxWindows, {Wide, Narrow}, {TRUE})
    \/ WindowFrameChangedDragged(Wids, Frames, MouseStates)

DragHistorySpec == Init /\ [][DragHistoryNext]_vars

\* notifications of one window while mission control comes and goes and its
\* display is reconfigured
SuppressionNext ==
    \/ WindowCreated(1, {Wide}, BOOLEAN)
    \/ SendFrameRequest({1}, {Narrow})
    \/ StartConstraintProbe({1})
    \/ SetMissionControlActive
    \/ ScreensChanging({SysId(1)})
    \/ WindowFrameChanged({1}, Frames, Option(TxIds), {FALSE}, {"Move"}, MouseStates)

SuppressionSpec == Init /\ [][SuppressionNext]_vars

\* requests and the notifications that acknowledge them: every notification
\* bears the last-sent txid of its window
AckFrames == {Wide, Narrow, Away, AwayNarrow}

AckNext ==
    \/ WindowCreated(1, {Wide}, {TRUE})
    \/ SendFrameRequest({1}, AckFrames)
    \/ Acknowledged({1}, AckFrames, ChangeKinds)

\* the Reactor takes every notification of its inbound queue: notifications
\* that bear the last-sent txid keep being delivered
AckSpec ==
    Init /\ [][AckNext]_vars /\ WF_vars(Acknowledged({1}, AckFrames, ChangeKinds))

\* the settling follow-up: the notification whose frame is the pending target
SettlingFollowUp(wids) ==
    \E wid \in wids :
      /\ IsSome(windows[wid])
      /\ IsSome(Unwrap(windows[wid]).sys_id)
      /\ IsSome(get_target_frame(Reactor, Unwrap(Unwrap(windows[wid]).sys_id)))
      /\ Acknowledged({wid},
                      {Unwrap(get_target_frame(Reactor, Unwrap(Unwrap(windows[wid]).sys_id)))},
                      ChangeKinds)

\* the mission-control actor, the events sent to it and the actions of its
\* overlay
ActorNext ==
    \/ ActorRun
    \/ ActorSend(ActorEvents)
    \/ ActorReceive
    \/ OverlayAction(MissionControlActions)

ActorSpec == Init /\ [][ActorNext]_vars

\* menus open and close while the windows of an application come and change
MenuNext ==
    \/ WindowCreated(1, Frames, {TRUE})
    \/ SendFrameRequest({1}, {Narrow})
    \/ WindowFrameChanged({1}, Frames, Option(TxIds), {FALSE}, {"Move"}, {None})
    \/ MenuOpened
    \/ MenuClosed

MenuSpec == Init /\ [][MenuNext]_vars

\* windows come and go under external ids that the window server reuses
IndexNext ==
    \/ WindowCreatedWith(MaxWindows, Frames, Option(ExtIds))
    \/ WindowDestroyed(Wids)
    \/ SendFrameRequest(Wids, {Narrow})

IndexSpec == Init /\ [][IndexNext]_vars

(***************************************************************************)
(* Callers of the WindowTxStore.  A call locks the shard of its key and    *)
(* reads the entry (DashMap::entry, get_mut, remove), then writes the      *)
(* entry and releases the shard.                                           *)
(***************************************************************************)
\* DashMap grants the write lock of a shard to one caller at a time
ShardFreeAlways(sh) == TRUE

ShardFree(sh) == lock[sh] = NoCaller

\* the entry a call leaves, given the entry it found
EntryAfter(c, old) ==
    CASE c.op = "insert" -> insert_entry(old, c.txid, Unwrap(c.target))
      [] c.op = "clear_target" -> clear_target_entry(old)
      [] c.op = "remove" -> remove_entry(old)
      [] c.op = "next_txid" -> next_txid_entry(old)
      [] c.op = "set_last_txid" -> set_last_txid_entry(old, c.txid)

\* the calls on the ids with the arguments given
Calls(ids, txids, targets) ==
    {Call("insert", id, t, Some(f)) : id \in ids, t \in txids, f \in targets}
    \cup {Call("set_last_txid", id, t, None) : id \in ids, t \in txids}
    \cup {Call(op, id, DefaultTx, None) : op \in {"clear_target", "remove", "next_txid"}, id \in ids}

Acquire(callers, calls) ==
    \E c \in callers, k \in calls :
      /\ pc[c] = "idle"
      /\ ShardFree(ShardOf(k.id))
      /\ k.op = "next_txid" => last_txid(store, k.id) < MaxTx
      /\ lock' = [lock EXCEPT ![ShardOf(k.id)] = Some(c)]
      /\ found' = [found EXCEPT ![c] = store[k.id]]
      /\ call' = [call EXCEPT ![c] = k]
      /\ pc' = [pc EXCEPT ![c] = "locked"]
      /\ ret' = [ret EXCEPT ![c] = None]
      /\ UNCHANGED << reactor_vars, env_vars, issued, issued_since, actor_vars >>

\* the stored txid falls below what next_txid has returned: the sequence of
\* the id starts again
Restarts(k, old) ==
    \/ k.op = "remove"
    \/ k.op \in {"insert", "set_last_txid"} /\ IsSome(old) /\ k.txid < Unwrap(old).txid

Commit(callers) ==
    \E c \in callers :
      /\ pc[c] = "locked"
      /\ LET k == call[c]
             new == EntryAfter(k, found[c])
         IN /\ store' = [store EXCEPT ![k.id] = new]
            /\ lock' = [lock EXCEPT ![ShardOf(k.id)] = NoCaller]
            /\ ret' = [ret EXCEPT ![c] =
                         IF k.op = "next_txid"
                         THEN Some([id |-> k.id, txid |-> Unwrap(new).txid])
                         ELSE None]
            /\ issued' =
                 IF k.op = "next_txid"
                 THEN [issued EXCEPT ![k.id] =
                         [first |-> IF @.first = DefaultTx THEN Unwrap(new).txid ELSE @.first,
                          last |-> Unwrap(new).txid,
                          max |-> IF Unwrap(new).txid > @.max THEN Unwrap(new).txid ELSE @.max]]
                 ELSE issued
            /\ issued_since' =
                 IF k.op = "next_txid"
                 THEN [issued_since EXCEPT ![k.id] = Unwrap(new).txid]
                 ELSE IF Restarts(k, found[c])
                 THEN [issued_since EXCEPT ![k.id] = DefaultTx]
                 ELSE issued_since
      /\ call' = [call EXCEPT ![c] = Idle]
      /\ found' = [found EXCEPT ![c] = None]
      /\ pc' = [pc EXCEPT ![c] = "idle"]
      /\ UNCHANGED << windows, window_ids, constraint_probes, constraints, drag_state,
                      skip_layout_for_window, mission_control_active, changing_screens,
                      menu_state, env_vars, actor_vars >>

\* one caller at a time: every operation of the store, in any order
StoreNext ==
    \/ Acquire({1}, Calls(ExtIds, TxIds, {Wide}))
    \/ Commit({1})

StoreSpec == Init /\ [][StoreNext]_vars

\* callers side by side
RaceNext ==
    \/ Acquire(Callers, {Call(op, id, DefaultTx, None) : op \in {"next_txid", "clear_target"}, id \in ExtIds})
    \/ Commit(Callers)

RaceSpec == Init /\ [][RaceNext]_vars

\* a caller begins a request: next_txid on the id of the window
IssueBegin(callers, ids) ==
    \E c \in callers :
      /\ ret[c] = None
      /\ Acquire({c}, {Call("next_txid", id, DefaultTx, None) : id \in ids})

\* the caller records the target of its request under the txid it was given
IssueRecord(callers, targets) ==
    \E c \in callers :
      /\ IsSome(ret[c])
      /\ Acquire({c}, {Call("insert", Unwrap(ret[c]).id, Unwrap(ret[c]).txid, Some(f)) :
                         f \in targets})

\* callers that issue requests side by side: each runs next_txid, then insert
\* with the txid it was given
IssueNext ==
    \/ IssueBegin(Callers, ExtIds)
    \/ IssueRecord(Callers, {Wide, Narrow})
    \/ Commit(Callers)

IssueSpec == Init /\ [][IssueNext]_vars

(***************************************************************************)
(* Claims.  A claim about a handler is stated of the Reactor the handler   *)
(* leaves when it is applied in a reachable state.                         *)
(***************************************************************************)
FrameOf(r, wid) == Unwrap(r.windows[wid]).frame_monotonic

PendingTarget(r, wid) ==
    IF IsSome(r.windows[wid]) /\ IsSome(Unwrap(r.windows[wid]).sys_id)
    THEN get_target_frame(r, Unwrap(Unwrap(r.windows[wid]).sys_id))
    ELSE None

\* C1: once a notification carrying transaction id T has been committed for a
\* window, no notification carrying a transaction id smaller than T changes
\* the window's frame_monotonic.
C1_NoRollback ==
    \A wid \in Wids, new_frame \in Frames, t \in TxIds, requested \in BOOLEAN,
       change_kind \in ChangeKinds, mouse_state \in MouseStates :
      (/\ IsSome(windows[wid])
       /\ IsSome(committed_tx[wid])
       /\ t < Unwrap(committed_tx[wid]))
      => FrameOf(handle_window_frame_changed(Reactor, wid, new_frame, Some(t), requested, change_kind, mouse_state, FALSE), wid)
           = FrameOf(Reactor, wid)

\* the notification is not suppressed and lies on an active placement
Unsuppressed(wid) ==
    /\ IsSome(windows[wid])
    /\ ~is_suppressed(Reactor, Unwrap(windows[wid]).sys_id)

PlacementActive(wid, new_frame) ==
    LET sys_id == Unwrap(windows[wid]).sys_id
        old_space == best_space_for_window(FrameOf(Reactor, wid), sys_id)
        new_space == best_space_for_window(new_frame, sys_id)
    IN \/ IsSome(old_space) /\ is_space_active(Unwrap(old_space))
       \/ IsSome(new_space) /\ is_space_active(Unwrap(new_space))

\* the case of C2: a pending target for wid, and a frame other than the stored
ExternalHalfCase(wid, new_frame) ==
    /\ Unsuppressed(wid)
    /\ IsSome(PendingTarget(Reactor, wid))
    /\ ~same_as(FrameOf(Reactor, wid), new_frame)
    /\ PlacementActive(wid, new_frame)

\* C2 as stated: a notification (W, F', txid=None, mouse=Down) for a window
\* with a pending target leaves the drag state Active for W, frame_monotonic
\* equal to F' and no pending target for W.
C2_ExternalHalfStated ==
    \A wid \in Wids, new_frame \in Frames, change_kind \in ChangeKinds :
      ExternalHalfCase(wid, new_frame) =>
        LET r == handle_window_frame_changed(Reactor, wid, new_frame, None, FALSE, change_kind, Some("Down"), FALSE)
        IN /\ r.drag_state.tag = "Active"
           /\ Unwrap(r.drag_state.session).window = wid
           /\ FrameOf(r, wid) = new_frame
           /\ PendingTarget(r, wid) = None

\* C2 amended: the notification leaves a drag session for W (Active, or
\* PendingSwap with another window as target), frame_monotonic equal to F',
\* and the pending target of W as it was.
C2_ExternalHalf ==
    \A wid \in Wids, new_frame \in Frames, change_kind \in ChangeKinds :
      ExternalHalfCase(wid, new_frame) =>
        LET r == handle_window_frame_changed(Reactor, wid, new_frame, None, FALSE, change_kind, Some("Down"), FALSE)
        IN /\ r.drag_state.tag \in {"Active", "PendingSwap"}
           /\ Unwrap(r.drag_state.session).window = wid
           /\ Unwrap(r.drag_state.session).last_frame = new_frame
           /\ r.drag_state.tag = "PendingSwap" =>
                /\ Unwrap(r.drag_state.target) # wid
                /\ IsSome(r.windows[Unwrap(r.drag_state.target)])
           /\ FrameOf(r, wid) = new_frame
           /\ PendingTarget(r, wid) = PendingTarget(Reactor, wid)

\* C2 happens: a drag session for a window whose request is still pending
C2_Witness ==
    \E wid \in Wids :
      /\ IsSome(windows[wid])
      /\ drag_state.tag = "Active"
      /\ Unwrap(drag_state.session).window = wid
      /\ Unwrap(drag_state.session).last_frame = FrameOf(Reactor, wid)
      /\ IsSome(PendingTarget(Reactor, wid))
      /\ ~same_as(Unwrap(PendingTarget(Reactor, wid)), FrameOf(Reactor, wid))

LastSent(r, wid) == get_last_sent_txid(r, Unwrap(Unwrap(r.windows[wid]).sys_id))

\* the case of C3: a pending target, no probe, no suppression
SelfHalfCase(wid) ==
    /\ Unsuppressed(wid)
    /\ IsSome(PendingTarget(Reactor, wid))
    /\ constraint_probes[wid] = None

Quiet(r) == [r EXCEPT !.events = << >>, !.commands = << >>, !.outcome = "none"]

\* what C4 compares
Settled(r) ==
    [windows |-> r.windows, store |-> r.store, constraint_probes |-> r.constraint_probes,
     constraints |-> r.constraints, drag_state |-> r.drag_state]

\* C4: processing a frame-change notification (one that carries no
\* transaction id or an id that has been issued) twice in succession leaves the
\* same window frame, transaction record, probe set, stored constraint and drag
\* state as processing it once, and the second processing emits no layout event.
C4_Idempotent ==
    \A wid \in Wids, new_frame \in Frames, last_seen \in Option(TxIds),
       requested \in BOOLEAN, change_kind \in ChangeKinds,
       mouse_state \in MouseStates, needs_probe \in BOOLEAN :
      Seen(Reactor, wid, last_seen) =>
        LET once == handle_window_frame_changed(Reactor, wid, new_frame, last_seen, requested, change_kind, mouse_state, needs_probe)
            twice == handle_window_frame_changed(Quiet(once), wid, new_frame, last_seen, requested, change_kind, mouse_state, needs_probe)
        IN /\ Settled(twice) = Settled(once)
           /\ twice.events = << >>

\* C4 happens: a notification that changes the Reactor when processed once
C4_Witness ==
    \E wid \in Wids, new_frame \in Frames, last_seen \in Option(TxIds),
       change_kind \in ChangeKinds, mouse_state \in MouseStates :
      /\ Seen(Reactor, wid, last_seen)
      /\ LastSentTo(Reactor, wid) > DefaultTx
      /\ LET once == handle_window_frame_changed(Reactor, wid, new_frame, last_seen, FALSE, change_kind, mouse_state, FALSE)
             twice == handle_window_frame_changed(Quiet(once), wid, new_frame, last_seen, FALSE, change_kind, mouse_state, FALSE)
         IN /\ Settled(once) # Settled(Reactor)
            /\ once.events # << >>
            /\ twice.outcome # once.outcome

\* the windows the drag coordinator refers to
DragRefs(r) ==
    (IF IsSome(r.drag_state.session) THEN {Unwrap(r.drag_state.session).window} ELSE {})
    \cup OptSet(r.drag_state.target)

\* C5: after handle_window_destroyed(W) for a tracked window there is no
\* constraint probe for W, no transaction record and no index entry for W's
\* external id, W is absent from the window table, the drag state is Inactive
\* if W was the dragged window or the pending swap target, skip_layout_for_window
\* does not name W, and no component still refers to W.
C5_DestructionSafety ==
    \A wid \in Wids :
      IsSome(windows[wid]) =>
        LET r == handle_window_destroyed(Reactor, wid)
            sys_id == Unwrap(windows[wid]).sys_id
        IN /\ r.constraint_probes[wid] = None
           /\ IsSome(sys_id) =>
                /\ get(r.store, Unwrap(sys_id)) = None
                /\ r.window_ids[Unwrap(sys_id)] = None
           /\ \A id \in ExtIds : r.window_ids[id] # Some(wid)
           /\ r.windows[wid] = None
           /\ wid \in DragRefs(Reactor) => r.drag_state = Inactive
           /\ wid \notin DragRefs(r)
           /\ r.skip_layout_for_window # Some(wid)
           /\ r.events = << WindowRemoved(wid) >>

\* C5 happens: the window destroyed has a probe in flight and is the target of
\* a pending swap, and the handler leaves the drag state Inactive
C5_Witness ==
    \E wid \in Wids :
      /\ IsSome(windows[wid])
      /\ IsSome(constraint_probes[wid])
      /\ drag_state.tag = "PendingSwap"
      /\ drag_state.target = Some(wid)
      /\ LET r == handle_window_destroyed(Reactor, wid)
         IN r.drag_state = Inactive /\ r.constraint_probes[wid] = None

MinOf(S) == CHOOSE m \in S : \A x \in S : m <= x

\* the least of the caps inferred so far on one axis, none when none was
LeastCap(S) == IF S = {} THEN None ELSE Some(MinOf(S))

\* C6: on each axis the stored cap of a window equals the minimum of all caps
\* inferred so far by probe resolutions and constrained-resize reconciliations
\* (none while none was inferred); so an inference of no cap never removes or
\* loosens a stored cap.
C6_MonotoneTightening ==
    \A wid \in Wids :
      IF IsSome(constraints[wid])
      THEN /\ Unwrap(constraints[wid]).max_w = LeastCap(inferred_caps[wid].max_w)
           /\ Unwrap(constraints[wid]).max_h = LeastCap(inferred_caps[wid].max_h)
      ELSE inferred_caps[wid] = NoCaps

\* C6 happens: two different caps were inferred on the width and one on the
\* height, a later inference found no cap, and the stored caps are the least
C6_Witness ==
    \E wid \in Wids :
      /\ Cardinality(inferred_caps[wid].max_w) >= 2
      /\ inferred_caps[wid].max_h # {}
      /\ IsSome(constraints[wid])
      /\ Unwrap(constraints[wid]).max_w = Some(MinOf(inferred_caps[wid].max_w))
      /\ FrameOf(Reactor, wid).w > MinOf(inferred_caps[wid].max_w)

\* C7 as stated: over any sequence of operations of the store on an id, the
\* transaction id next_txid returns is strictly greater than every id it has
\* returned for that id before.
C7_StrictlyIncreasingStated ==
    \A id \in ExtIds : last_txid(next_txid(store, id), id) > issued[id].max

\* C7 amended: the transaction id next_txid returns is strictly greater than
\* every id it has returned for that id since the id's record was last removed
\* or overwritten, by insert or set_last_txid, with a smaller transaction id.
C7_StrictlyIncreasing ==
    \A id \in ExtIds : last_txid(next_txid(store, id), id) > issued_since[id]

\* C7 happens: ids were returned for an id, its record was removed, and ids
\* were returned again, each greater than the one before it
C7_Witness ==
    \E id \in ExtIds :
      /\ issued[id].max > issued[id].last
      /\ issued[id].last > TxNext(DefaultTx)
      /\ issued_since[id] = issued[id].last
      /\ last_txid(store, id) = issued[id].last

C9_Begin ==
    \A id \in ExtIds :
      LET after == next_txid(store, id)
      IN /\ IsSome(get(after, id))
         /\ Unwrap(get(after, id)).txid = last_txid(store, id) + 1
         /\ get(store, id) = None => Unwrap(get(after, id)).txid = DefaultTx + 1
         /\ Unwrap(get(after, id)).target = None
         /\ \A other \in ExtIds \ {id} : get(after, other) = get(store, other)

\* C9 happens: a caller has been returned the successor of a stored txid, the
\* record holds it without target, and another id has a record with a target
C9_Witness ==
    \E c \in Callers, other \in ExtIds :
      /\ IsSome(ret[c])
      /\ Unwrap(ret[c]).id # other
      /\ Unwrap(ret[c]).txid > TxNext(DefaultTx)
      /\ get(store, Unwrap(ret[c]).id) = Some(TxRecord(Unwrap(ret[c]).txid, None))
      /\ IsSome(get(store, other))
      /\ IsSome(Unwrap(get(store, other)).target)

\* C10 as stated: after insert(id, txid, target) the record of id holds the
\* supplied frame as pending target, and its txid is the transaction id most
\* recently begun for id.
C10_RecordTargetStated ==
    \A id \in ExtIds, txid \in TxIds, target \in Frames :
      LET after == insert(store, id, txid, target)
      IN /\ IsSome(get(after, id))
         /\ Unwrap(get(after, id)).target = Some(target)
         /\ issued[id].last # DefaultTx => Unwrap(get(after, id)).txid = issued[id].last

\* C10 amended: after insert(id, txid, target) the record of id, created if
\* there was none, holds the supplied frame as pending target and the supplied
\* txid, whichever transaction was begun last; other records are unchanged.
C10_RecordTarget ==
    \A id \in ExtIds, txid \in TxIds, target \in Frames :
      LET after == insert(store, id, txid, target)
      IN /\ get(after, id) = Some(TxRecord(txid, Some(target)))
         /\ \A other \in ExtIds \ {id} : get(after, other) = get(store, other)

\* C10 happens: a record holds a target under a txid that is not the one most
\* recently begun for its id
C10_Witness ==
    \E id \in ExtIds :
      /\ IsSome(get(store, id))
      /\ IsSome(Unwrap(get(store, id)).target)
      /\ issued[id].last > TxNext(DefaultTx)
      /\ Unwrap(get(store, id)).txid < issued[id].last
      /\ Unwrap(get(store, id)).txid > DefaultTx

\* C11: clear_target(id) on an id with a record removes the pending target and
\* keeps the stored txid, so the next next_txid(id) returns the successor of
\* the kept txid; on an id with no record it changes nothing and creates no
\* record; the records of other ids are left alone.
C11_ClearTarget ==
    \A id \in ExtIds :
      LET after == clear_target(store, id)
      IN /\ IsSome(get(store, id)) =>
              get(after, id) = Some(TxRecord(Unwrap(get(store, id)).txid, None))
         /\ get(store, id) = None => after = store
         /\ last_txid(after, id) = last_txid(store, id)
         /\ last_txid(next_txid(after, id), id) = TxNext(last_txid(store, id))
         /\ \A other \in ExtIds \ {id} : get(after, other) = get(store, other)

\* C11 happens: clear_target takes the target of a record whose txid is past
\* the first, and is applied to an id that has no record
C11_Witness ==
    \E id, other \in ExtIds :
      /\ IsSome(get(store, id))
      /\ IsSome(Unwrap(get(store, id)).target)
      /\ Unwrap(get(store, id)).txid > TxNext(DefaultTx)
      /\ Unwrap(get(clear_target(store, id), id)).target = None
      /\ get(store, other) = None
      /\ get(clear_target(store, other), other) = None

\* C12: set_last_txid(id, txid) leaves the record of id with exactly the
\* supplied txid and no pending target, whether the id had no record, a record
\* without target or a record with a stale target; other records are left
\* alone.
C12_SetLastTxid ==
    \A id \in ExtIds, txid \in TxIds :
      LET after == set_last_txid(store, id, txid)
      IN /\ get(after, id) = Some(TxRecord(txid, None))
         /\ last_txid(after, id) = txid
         /\ \A other \in ExtIds \ {id} : get(after, other) = get(store, other)

\* C12 happens: set_last_txid overwrites a record that holds a stale target
\* under another txid, and creates the record of an id that had none
C12_Witness ==
    \E id, other \in ExtIds, txid \in TxIds :
      /\ IsSome(get(store, id))
      /\ IsSome(Unwrap(get(store, id)).target)
      /\ Unwrap(get(store, id)).txid # txid
      /\ get(set_last_txid(store, id, txid), id) = Some(TxRecord(txid, None))
      /\ get(store, other) = None
      /\ IsSome(get(set_last_txid(store, other, txid), other))

\* C13 as stated: remove(id) purges the whole record: afterwards get(id) is
\* absent, last_txid(id) is the default id, and the next next_txid(id) returns
\* the successor of the default id, which is the first id ever issued for id.
C13_RemoveStated ==
    \A id \in ExtIds :
      LET after == remove(store, id)
      IN /\ get(after, id) = None
         /\ last_txid(after, id) = DefaultTx
         /\ last_txid(next_txid(after, id), id) = TxNext(DefaultTx)
         /\ issued[id].first # DefaultTx =>
              last_txid(next_txid(after, id), id) = issued[id].first

\* C13 amended: remove(id) purges the whole record: afterwards get(id) is
\* absent, last_txid(id) is the default id, and the next next_txid(id) returns
\* the successor of the default id; the records of other ids are left alone.
\* (That id is the first id issued for the key only if the key was not seeded
\* by insert or set_last_txid before its first next_txid.)
C13_Remove ==
    \A id \in ExtIds :
      LET after == remove(store, id)
      IN /\ get(after, id) = None
         /\ last_txid(after, id) = DefaultTx
         /\ get(next_txid(after, id), id) = Some(TxRecord(TxNext(DefaultTx), None))
         /\ \A other \in ExtIds \ {id} : get(after, other) = get(store, other)

\* C13 happens: the sequence of an id has restarted: its record holds the
\* successor of the default id after a greater id was issued for it, and the
\* first id issued for it was a seeded one
C13_Witness ==
    \E id \in ExtIds :
      /\ get(store, id) = Some(TxRecord(TxNext(DefaultTx), None))
      /\ issued[id].last = TxNext(DefaultTx)
      /\ issued[id].max > TxNext(DefaultTx)
      /\ issued[id].first > TxNext(DefaultTx)
      /\ issued_since[id] = TxNext(DefaultTx)
      /\ get(remove(store, id), id) = None

\* the handler left every field of the Reactor as it found it, sent no layout
\* event and issued no layout command
NoOp(r) == [r EXCEPT !.outcome = "none"] = Reactor

\* the windows that are not in the window table
UnknownWindows == {wid \in Wids : windows[wid] = None}

\* a mouse-up notification finds a drag to finish
MouseUpFinishes(mouse_state) ==
    /\ mouse_state = Some("Up")
    /\ \/ drag_state.tag \in {"Active", "PendingSwap"}
       \/ IsSome(skip_layout_for_window)

\* the destroyed, minimized, deminiaturized and title-changed handlers do
\* nothing for a window that is not in the window table
UnknownIgnored(wid) ==
    /\ NoOp(handle_window_destroyed(Reactor, wid))
    /\ NoOp(handle_window_minimized(Reactor, wid))
    /\ \A needs_probe \in BOOLEAN :
         NoOp(handle_window_deminiaturized(Reactor, wid, needs_probe))
    /\ \A title \in Titles : NoOp(handle_window_title_changed(Reactor, wid, title))

\* C14 as stated: every window event handler (frame changed, destroyed,
\* minimized, deminiaturized, title changed) called with a WindowId that is not
\* in the window table changes no Reactor state, emits no layout event and
\* raises no failure.
C14_UnknownWindowStated ==
    \A wid \in UnknownWindows :
      /\ UnknownIgnored(wid)
      /\ \A new_frame \in Frames, last_seen \in Option(TxIds), requested \in BOOLEAN,
            change_kind \in ChangeKinds, mouse_state \in MouseStates :
           NoOp(handle_window_frame_changed(Reactor, wid, new_frame, last_seen, requested,
                                            change_kind, mouse_state, FALSE))

\* C14 amended: the destroyed, minimized, deminiaturized and title-changed
\* handlers are no-ops for a WindowId that is not in the window table.  The
\* frame-changed handler leaves the window table, the index, the transaction
\* store, the probes and the constraints alone and emits no layout event; it
\* is a no-op unless the notification reports mouse up while a drag is Active
\* or PendingSwap or a window is marked to skip layout, and then it finishes
\* the drag: the drag state becomes Inactive and the mark is cleared.
C14_UnknownWindow ==
    \A wid \in UnknownWindows :
      /\ UnknownIgnored(wid)
      /\ \A new_frame \in Frames, last_seen \in Option(TxIds), requested \in BOOLEAN,
            change_kind \in ChangeKinds, mouse_state \in MouseStates :
           LET r == handle_window_frame_changed(Reactor, wid, new_frame, last_seen,
                                                requested, change_kind, mouse_state, FALSE)
           IN IF MouseUpFinishes(mouse_state)
              THEN /\ r.windows = windows
                   /\ r.window_ids = window_ids
                   /\ r.store = store
                   /\ r.constraint_probes = constraint_probes
                   /\ r.constraints = constraints
                   /\ r.events = << >>
                   /\ r.drag_state = Inactive
                   /\ r.skip_layout_for_window = None
              ELSE NoOp(r)

\* C14 happens: a window is dragged while another WindowId is not in the
\* table; the handlers called with that WindowId ignore it, and a mouse-up
\* notification for it ends the drag
C14_Witness ==
    \E wid \in UnknownWindows :
      /\ drag_state.tag = "Active"
      /\ NoOp(handle_window_destroyed(Reactor, wid))
      /\ NoOp(handle_window_frame_changed(Reactor, wid, Wide, None, FALSE, "Move",
                                          Some("Down"), FALSE))
      /\ handle_window_frame_changed(Reactor, wid, Wide, None, FALSE, "Move",
                                     Some("Up"), FALSE).drag_state = Inactive

\* window w is in the window table with external id e
InTable(w, e) == IsSome(windows[w]) /\ Unwrap(windows[w]).sys_id = Some(e)

\* no external id is held by two windows of the table at once
ExternalIdsSettled ==
    \A v, w \in Wids, e \in ExtIds : (InTable(v, e) /\ InTable(w, e)) => v = w

\* C15: after any sequence of window-created and window-destroyed events the
\* index from external id to WindowId agrees with the window table: it maps
\* external id e to window w exactly when w is in the table with external id
\* e; in particular once an external id was reassigned to a new window and the
\* destruction of the old window has been processed.
C15_IndexConsistency ==
    ExternalIdsSettled =>
      \A e \in ExtIds, w \in Wids : (window_ids[e] = Some(w)) <=> InTable(w, e)

C17_MoveOriginatesTransaction ==
    \A wid \in Wids, target_screen \in Option(Spaces) :
      (IsSome(windows[wid]) /\ IsSome(Unwrap(windows[wid]).sys_id)) =>
        LET wsid == Unwrap(Unwrap(windows[wid]).sys_id)
            r == handle_command_reactor_move_window_to_display(Reactor, Some(wid), target_screen)
        IN /\ Len(r.requests) <= 1
           /\ r.requests # << >> =>
                /\ r.requests[1].type = "SetWindowFrame"
                /\ r.requests[1].wid = wid
                /\ r.requests[1].txid > last_txid(store, wsid)
                /\ r.requests[1].txid = last_txid(r.store, wsid)
                /\ r.requests[1].frame = FrameOf(r, wid)
           /\ (r.outcome = "moved_to_display" /\ wid \in Apps) => r.requests # << >>
           /\ r.requests = << >> => r.store = store

\* C17 happens: a window with a pending request is moved to the other active
\* display, and the request of the move carries the successor of the txid of
\* the pending request
C17_Witness ==
    \E wid \in Wids :
      /\ IsSome(windows[wid])
      /\ IsSome(Unwrap(windows[wid]).sys_id)
      /\ IsSome(PendingTarget(Reactor, wid))
      /\ LastSent(Reactor, wid) > DefaultTx
      /\ LET r == handle_command_reactor_move_window_to_display(Reactor, Some(wid), Some(3))
         IN /\ Len(r.requests) = 1
            /\ r.requests[1].txid = TxNext(LastSent(Reactor, wid))
            /\ LastSent(r, wid) = r.requests[1].txid
            /\ best_space_for_window(FrameOf(r, wid), None) = Some(3)

\* the swaps among the layout commands a handler issued
Swaps(r) == SelectSeq(r.commands, LAMBDA c : c.type = "SwapWindows")

SuppressedWindows ==
    {wid \in Wids :
        /\ IsSome(windows[wid])
        /\ \/ mission_control_active
           \/ \E wsid \in changing_screens : Unwrap(windows[wid]).sys_id = Some(wsid)}

\* C19 as stated: while mission control is active, or the window's external id
\* is among the windows whose display is being reconfigured, a frame-change
\* notification for the window changes no state (frame, transaction record,
\* probe, constraint, drag state) and emits no layout event, whatever its
\* txid, requested flag, change kind and mouse state.
C19_SuppressionStated ==
    \A wid \in SuppressedWindows, new_frame \in Frames, last_seen \in Option(TxIds),
       requested \in BOOLEAN, change_kind \in ChangeKinds, mouse_state \in MouseStates,
       needs_probe \in BOOLEAN :
      NoOp(handle_window_frame_changed(Reactor, wid, new_frame, last_seen, requested,
                                       change_kind, mouse_state, needs_probe))

\* C19 amended: a suppressed frame-change notification leaves the window
\* table, the index, the transaction store, the probes and the constraints as
\* they are and emits no layout event, whatever its txid, requested flag and
\* change kind; it changes nothing at all unless it reports mouse up while a
\* drag is Active or PendingSwap or a window is marked to skip layout, and
\* then the drag is finished: the drag state becomes Inactive and the mark is
\* cleared.
C19_Suppression ==
    \A wid \in SuppressedWindows, new_frame \in Frames, last_seen \in Option(TxIds),
       requested \in BOOLEAN, change_kind \in ChangeKinds, mouse_state \in MouseStates,
       needs_probe \in BOOLEAN :
      LET r == handle_window_frame_changed(Reactor, wid, new_frame, last_seen, requested,
                                           change_kind, mouse_state, needs_probe)
      IN IF MouseUpFinishes(mouse_state)
         THEN /\ r.windows = windows
              /\ r.window_ids = window_ids
              /\ r.store = store
              /\ r.constraint_probes = constraint_probes
              /\ r.constraints = constraints
              /\ r.events = << >>
              /\ r.requests = << >>
              /\ r.drag_state = Inactive
              /\ r.skip_layout_for_window = None
         ELSE NoOp(r)

\* C19 happens: the display of a dragged window with a pending request is
\* being reconfigured while mission control is not active; the echo of the
\* request is ignored, and a mouse-up notification only ends the drag
C19_Witness ==
    \E wid \in SuppressedWindows :
      /\ ~mission_control_active
      /\ drag_state.tag = "Active"
      /\ IsSome(PendingTarget(Reactor, wid))
      /\ NoOp(handle_window_frame_changed(
                  Reactor, wid, Unwrap(PendingTarget(Reactor, wid)),
                  Some(LastSent(Reactor, wid)), FALSE, "Resize", None, FALSE))
      /\ LET r == handle_window_frame_changed(
                      Reactor, wid, Unwrap(PendingTarget(Reactor, wid)),
                      Some(LastSent(Reactor, wid)), FALSE, "Resize", Some("Up"), FALSE)
         IN r.drag_state = Inactive /\ r.windows = windows /\ r.store = store

\* C20: in self-triggered reconciliation (the notification carries the txid
\* of the pending request, the mouse is not down), a Resize notification whose
\* size differs from the size of the pending target and whose origin is not
\* the target's origin is ignored: frame_monotonic and the transaction record
\* (txid and target) are after the event what they were before it.
C20_IntermediateResizeIgnored ==
    \A wid \in Wids, new_frame \in Frames, requested \in BOOLEAN :
      (/\ SelfHalfCase(wid)
       /\ ~size_same_as(new_frame, Unwrap(PendingTarget(Reactor, wid)))
       /\ ~origin_same_as(new_frame, Unwrap(PendingTarget(Reactor, wid))))
      => LET r == handle_window_frame_changed(Reactor, wid, new_frame,
                                              Some(LastSent(Reactor, wid)), requested,
                                              "Resize", None, FALSE)
         IN /\ FrameOf(r, wid) = FrameOf(Reactor, wid)
            /\ r.store = store

\* what a notification that is ignored leaves alone: the window's frame, the
\* transaction record of its external id, the probes and the constraints
Kept(r, wid) ==
    /\ FrameOf(r, wid) = FrameOf(Reactor, wid)
    /\ r.store = store
    /\ r.constraint_probes = constraint_probes
    /\ r.constraints = constraints
    /\ r.events = << >>

\* the case of C21: a pending target for wid, and a last-seen txid that is
\* neither the last-sent txid nor the txid of a probe of wid
StaleEchoCase(wid, t) ==
    /\ IsSome(windows[wid])
    /\ IsSome(PendingTarget(Reactor, wid))
    /\ t # LastSent(Reactor, wid)
    /\ IsSome(constraint_probes[wid]) => t # Unwrap(constraint_probes[wid]).txid

\* C21: a notification for a window with a pending target whose last-seen
\* txid is present, differs from the last-sent txid and is not the txid of a
\* probe of the window is ignored: frame_monotonic, the transaction record
\* (txid and target), the probes and the stored constraints are unchanged and
\* no layout event is emitted, whatever its frame, requested flag, change kind
\* and mouse state.
C21_StaleEcho ==
    \A wid \in Wids, t \in TxIds, new_frame \in Frames, requested \in BOOLEAN,
       change_kind \in ChangeKinds, mouse_state \in MouseStates, needs_probe \in BOOLEAN :
      StaleEchoCase(wid, t) =>
        Kept(handle_window_frame_changed(Reactor, wid, new_frame, Some(t), requested,
                                         change_kind, mouse_state, needs_probe), wid)

\* C21 happens: a second request superseded the first while a probe of the
\* window is in flight, and the echo of the first request, with a frame other
\* than the stored one, is dropped as stale
C21_Witness ==
    \E wid \in Wids, t \in TxIds :
      /\ StaleEchoCase(wid, t)
      /\ ~is_suppressed(Reactor, Unwrap(windows[wid]).sys_id)
      /\ IsSome(constraint_probes[wid])
      /\ t > DefaultTx
      /\ t < LastSent(Reactor, wid)
      /\ ~same_as(FrameOf(Reactor, wid), Away)
      /\ LET r == handle_window_frame_changed(Reactor, wid, Away, Some(t), FALSE, "Move",
                                              None, FALSE)
         IN r.outcome = "stale_echo" /\ Kept(r, wid)

\* the case of C22: a probe of wid is in flight and wid is not suppressed
ProbedWindows == {wid \in Wids : Unsuppressed(wid) /\ IsSome(constraint_probes[wid])}

\* C22: a notification that is not suppressed and bears the txid of the probe
\* of window W sets frame_monotonic to the notified frame, leaves no pending
\* target for W, removes the probe of W and stores the merge of the previous
\* constraint with the constraint inferred from the notified frame and the
\* probe's target; the branch is taken whatever the pending target, the
\* last-sent txid, the requested flag, the change kind and the mouse state.
C22_ProbeResolution ==
    \A wid \in ProbedWindows, new_frame \in Frames, requested \in BOOLEAN,
       change_kind \in ChangeKinds, mouse_state \in MouseStates, needs_probe \in BOOLEAN :
      LET probe == Unwrap(constraint_probes[wid])
          r == handle_window_frame_changed(Reactor, wid, new_frame, Some(probe.txid),
                                           requested, change_kind, mouse_state, needs_probe)
      IN /\ r.outcome = "probe"
         /\ FrameOf(r, wid) = new_frame
         /\ PendingTarget(r, wid) = None
         /\ r.constraint_probes[wid] = None
         /\ r.constraints[wid]
              = Some(merge_constraints(constraints[wid],
                                       infer_constraint_from_target(new_frame, probe.target)))

\* C22 happens: a window that has a stored constraint is probed again, a
\* request sent after the probe is pending under a later txid, and the
\* mouse is down; the probe's answer with a narrower frame is resolved all the
\* same and tightens the constraint
C22_Witness ==
    \E wid \in ProbedWindows :
      LET probe == Unwrap(constraint_probes[wid])
          r == handle_window_frame_changed(Reactor, wid, Narrow, Some(probe.txid), FALSE,
                                           "Move", Some("Down"), FALSE)
      IN /\ IsSome(PendingTarget(Reactor, wid))
         /\ LastSent(Reactor, wid) > probe.txid
         /\ IsSome(constraints[wid])
         /\ Unwrap(constraints[wid]).max_w = Some(Wide.w)
         /\ ~same_as(FrameOf(Reactor, wid), Narrow)
         /\ r.outcome = "probe"
         /\ PendingTarget(r, wid) = None
         /\ r.constraint_probes[wid] = None
         /\ Unwrap(r.constraints[wid]).max_w = Some(Narrow.w)
         /\ r.drag_state = drag_state

\* the outcomes of self-triggered reconciliation
SelfOutcomes ==
    {"self_match", "intermediate", "constrained_duplicate", "constrained_resize",
     "constrained_offscreen", "other_mismatch", "missing_tx_record"}

\* the outcomes of a change nobody asked for
ExternalOutcomes ==
    {"inactive_space", "duplicate", "drag", "scrolling_noise", "placement_changed",
     "resized", "resized_inactive", "moved"}

\* C23: a notification that reaches classification (the window is not
\* suppressed and the notification answers no probe) with the mouse down and
\* that is self-triggered (a pending target exists and last-seen txid equals
\* last-sent txid) is not reconciled against the target and not dropped as a
\* stale echo: the pending target is cleared and the notification is handled
\* as the same notification is for a window without a pending target, by the
\* branches for changes that are not self-triggered; afterwards no pending
\* target exists for the window.
C23_DragOverride ==
    \A wid \in Wids, new_frame \in Frames, requested \in BOOLEAN,
       change_kind \in ChangeKinds, needs_probe \in BOOLEAN :
      SelfHalfCase(wid) =>
        LET wsid == Unwrap(Unwrap(windows[wid]).sys_id)
            seen == Some(LastSent(Reactor, wid))
            r == handle_window_frame_changed(Reactor, wid, new_frame, seen, requested,
                                             change_kind, Some("Down"), needs_probe)
        IN /\ PendingTarget(r, wid) = None
           /\ r.outcome \in ExternalOutcomes \cup {"requested"}
           /\ requested <=> r.outcome = "requested"
           /\ r = handle_window_frame_changed(remove_for_window(Reactor, wsid), wid,
                                              new_frame, seen, requested, change_kind,
                                              Some("Down"), needs_probe)

\* C23 happens: the echo of the pending request arrives with the very frame
\* that was requested while the mouse is down; the target is cleared and a
\* drag session begins for the window instead of a reconciliation
C23_Witness ==
    \E wid \in Wids :
      /\ SelfHalfCase(wid)
      /\ LastSent(Reactor, wid) > DefaultTx
      /\ drag_state.tag = "Inactive"
      /\ ~same_as(FrameOf(Reactor, wid), Unwrap(PendingTarget(Reactor, wid)))
      /\ LET r == handle_window_frame_changed(
                      Reactor, wid, Unwrap(PendingTarget(Reactor, wid)),
                      Some(LastSent(Reactor, wid)), FALSE, "Move", Some("Down"), FALSE)
         IN /\ r.outcome = "drag"
            /\ PendingTarget(r, wid) = None
            /\ dragged(r) = Some(wid)
            /\ FrameOf(r, wid) = Unwrap(PendingTarget(Reactor, wid))

\* the case of C24: the echo of the pending request of wid is a Resize whose
\* size differs from the target's while its origin is the target's
ConstrainedCase(wid, new_frame) ==
    /\ SelfHalfCase(wid)
    /\ ~size_same_as(new_frame, Unwrap(PendingTarget(Reactor, wid)))
    /\ origin_same_as(new_frame, Unwrap(PendingTarget(Reactor, wid)))

\* the constraint that merging the one inferred from the answer leaves
MergedWith(wid, new_frame) ==
    merge_constraints(constraints[wid],
                      infer_constraint_from_target(new_frame,
                                                   Unwrap(PendingTarget(Reactor, wid))))

\* the frame is committed, the pending record cleared, the constraint merged
ConstrainedCommit(r, wid, new_frame) ==
    /\ FrameOf(r, wid) = new_frame
    /\ PendingTarget(r, wid) = None
    /\ LastSent(r, wid) = LastSent(Reactor, wid)
    /\ r.constraints[wid] = Some(MergedWith(wid, new_frame))

\* a resize layout event for wid and its new frame is the one event emitted
ResizeAnnounced(r, wid, new_frame) ==
    /\ Len(r.events) = 1
    /\ r.events[1].type = "WindowResized"
    /\ r.events[1].wid = wid
    /\ r.events[1].new_frame = new_frame

\* C24 as stated: in self-triggered reconciliation of a Resize whose size
\* differs from the target's size while the origin matches the target's, the
\* frame is committed, the pending record is cleared, the inferred constraint
\* is merged into the stored one, and a resize layout event for the window is
\* emitted if and only if the merged constraint differs from the constraint
\* stored before; when it is equal, no layout event is emitted.
C24_ConstrainedResizeStated ==
    \A wid \in Wids, new_frame \in ResizeFrames, requested \in BOOLEAN,
       mouse_state \in {None, Some("Up")} :
      ConstrainedCase(wid, new_frame) =>
        LET r == handle_window_frame_changed(Reactor, wid, new_frame,
                                             Some(LastSent(Reactor, wid)), requested,
                                             "Resize", mouse_state, FALSE)
        IN /\ ConstrainedCommit(r, wid, new_frame)
           /\ IF constraints[wid] # Some(MergedWith(wid, new_frame))
              THEN ResizeAnnounced(r, wid, new_frame)
              ELSE r.events = << >>

\* C24 amended: the frame is committed, the pending record cleared and the
\* constraint merged as stated; a resize layout event for the window, from
\* the target to the new frame, is emitted if and only if the merged
\* constraint differs from the constraint stored before and the new frame
\* lies on an active space; otherwise no layout event is emitted.
C24_ConstrainedResize ==
    \A wid \in Wids, new_frame \in ResizeFrames, requested \in BOOLEAN,
       mouse_state \in {None, Some("Up")} :
      ConstrainedCase(wid, new_frame) =>
        LET r == handle_window_frame_changed(Reactor, wid, new_frame,
                                             Some(LastSent(Reactor, wid)), requested,
                                             "Resize", mouse_state, FALSE)
            new_space == best_space_for_window(new_frame, Unwrap(windows[wid]).sys_id)
        IN /\ ConstrainedCommit(r, wid, new_frame)
           /\ IF /\ constraints[wid] # Some(MergedWith(wid, new_frame))
                 /\ IsSome(new_space)
                 /\ is_space_active(Unwrap(new_space))
              THEN /\ ResizeAnnounced(r, wid, new_frame)
                   /\ r.events[1].old_frame = Unwrap(PendingTarget(Reactor, wid))
              ELSE r.events = << >>

\* C24 happens: a window asked to be Wide answers Narrow, once with no
\* constraint stored (announced) and, in another state, with the cap of
\* Narrow stored already (suppressed as a duplicate)
C24_Witness ==
    \E wid \in Wids :
      /\ ConstrainedCase(wid, Narrow)
      /\ LET r == handle_window_frame_changed(Reactor, wid, Narrow,
                                              Some(LastSent(Reactor, wid)), FALSE,
                                              "Resize", None, FALSE)
         IN /\ constraints[wid] = Some(WindowConstraint(Some(Narrow.w), None))
            /\ ~same_as(FrameOf(Reactor, wid), Narrow)
            /\ r.outcome = "constrained_duplicate"
            /\ FrameOf(r, wid) = Narrow
            /\ r.events = << >>

\* the case of C25: the window is not suppressed, the notification answers
\* no probe, is not self-triggered, is no stale echo and is not requested
ExternalCase(wid, last_seen) ==
    /\ Unsuppressed(wid)
    /\ ~probe_matches(constraint_probes[wid], last_seen)
    /\ IsSome(PendingTarget(Reactor, wid)) => last_seen = None

\* the notification is one the external branch ignores: neither placement is
\* active, or the new frame is the stored frame within tolerance
ExternalIgnorable(wid, new_frame) ==
    \/ ~PlacementActive(wid, new_frame)
    \/ same_as(FrameOf(Reactor, wid), new_frame)

\* the handler only finished the drag: the tables are as they were, nothing
\* was sent to the layout but its update, the drag state is Inactive and no
\* window is marked to skip layout
OnlyDragFinished(r) ==
    /\ r.windows = windows
    /\ r.window_ids = window_ids
    /\ r.store = store
    /\ r.constraint_probes = constraint_probes
    /\ r.constraints = constraints
    /\ r.events = << >>
    /\ r.requests = << >>
    /\ r.drag_state = Inactive
    /\ r.skip_layout_for_window = None

\* C25 as stated: for a genuine external change, if neither the old frame's
\* placement nor the new frame's placement is active, nothing is mutated and
\* no event is emitted; if the new frame equals the stored frame within
\* tolerance, nothing is mutated and no event is emitted; in every other case
\* frame_monotonic becomes the new frame.
C25_ExternalCommitStated ==
    \A wid \in Wids, new_frame \in ResizeFrames, last_seen \in Option(TxIds),
       change_kind \in ChangeKinds, mouse_state \in MouseStates :
      ExternalCase(wid, last_seen) =>
        LET r == handle_window_frame_changed(Reactor, wid, new_frame, last_seen, FALSE,
                                             change_kind, mouse_state, FALSE)
        IN IF ExternalIgnorable(wid, new_frame)
           THEN NoOp(r)
           ELSE FrameOf(r, wid) = new_frame

\* C25 amended: for a genuine external change, if neither placement is active
\* or the new frame equals the stored frame within tolerance, the window
\* table, the transaction store, the probes and the constraints are unchanged
\* and no layout event is emitted; nothing at all is mutated unless the
\* notification reports mouse up while a drag is Active or PendingSwap or a
\* window is marked to skip layout, and then the drag is finished.  In every
\* other case frame_monotonic becomes the new frame.
C25_ExternalCommit ==
    \A wid \in Wids, new_frame \in ResizeFrames, last_seen \in Option(TxIds),
       change_kind \in ChangeKinds, mouse_state \in MouseStates :
      ExternalCase(wid, last_seen) =>
        LET r == handle_window_frame_changed(Reactor, wid, new_frame, last_seen, FALSE,
                                             change_kind, mouse_state, FALSE)
        IN IF ExternalIgnorable(wid, new_frame)
           THEN IF MouseUpFinishes(mouse_state) THEN OnlyDragFinished(r) ELSE NoOp(r)
           ELSE FrameOf(r, wid) = new_frame

\* C25 happens: a window on the inactive space is reported at another frame
\* on the inactive space and the report is ignored, while a report of a frame
\* on the active space is committed; the stored frame of a window on the
\* active space is reported again and the report is ignored as a duplicate
C25_Witness ==
    \E wid, other \in Wids :
      /\ ExternalCase(wid, None)
      /\ ExternalCase(other, None)
      /\ FrameOf(Reactor, wid) = Away
      /\ FrameOf(Reactor, other) = Wide
      /\ LET off == handle_window_frame_changed(Reactor, wid, AwayNarrow, None, FALSE,
                                                "Resize", None, FALSE)
             on == handle_window_frame_changed(Reactor, wid, Narrow, None, FALSE,
                                               "Move", None, FALSE)
             dup == handle_window_frame_changed(Reactor, other, Wide, None, FALSE,
                                                "Move", Some("Down"), FALSE)
         IN /\ off.outcome = "inactive_space" /\ NoOp(off)
            /\ on.outcome \in ExternalOutcomes /\ FrameOf(on, wid) = Narrow
            /\ dup.outcome = "duplicate" /\ NoOp(dup)

\* a committed external change: a genuine external change that is not ignored
CommittedExternal(wid, new_frame, last_seen) ==
    /\ ExternalCase(wid, last_seen)
    /\ ~ExternalIgnorable(wid, new_frame)

\* the events a handler emitted are at most one, a resize of wid
OnlyLiveResize(r, wid) ==
    /\ Len(r.events) <= 1
    /\ \A i \in 1..Len(r.events) :
         r.events[i].type = "WindowResized" /\ r.events[i].wid = wid

\* a drag session is active for wid at its new frame
DraggedAt(r, wid, new_frame) ==
    /\ is_in_drag(r)
    /\ dragged(r) = Some(wid)
    /\ Unwrap(r.drag_state.session).last_frame = new_frame

\* C26 as stated: for a committed external change, if the effective mouse
\* state is Down or a drag is already in progress for any window, the change
\* is handled only by the drag coordinator: a drag session is active for the
\* changed window afterwards, no placement event (window removed preserving
\* floating, window added) is emitted, and the only layout event that may be
\* emitted in that step is a live resize.
C26_DragRoutingStated ==
    \A wid \in Wids, new_frame \in Frames, last_seen \in Option(TxIds),
       change_kind \in ChangeKinds, mouse_state \in MouseStates :
      (/\ CommittedExternal(wid, new_frame, last_seen)
       /\ mouse_state = Some("Down") \/ is_in_drag(Reactor))
      => LET r == handle_window_frame_changed(Reactor, wid, new_frame, last_seen, FALSE,
                                              change_kind, mouse_state, FALSE)
         IN /\ r.outcome = "drag"
            /\ DraggedAt(r, wid, new_frame)
            /\ OnlyLiveResize(r, wid)

\* C26 amended: the change is handled only by the drag coordinator, which
\* holds a session for the changed window at its new frame when the branch
\* is done; no placement event is emitted and the only layout event that may
\* be emitted is a live resize.  The session is still active after the event
\* unless the notification reports mouse up: then the drag, which was in
\* progress before, is finished in the same step and the drag state is
\* Inactive afterwards.
C26_DragRouting ==
    \A wid \in Wids, new_frame \in Frames, last_seen \in Option(TxIds),
       change_kind \in ChangeKinds, mouse_state \in MouseStates :
      (/\ CommittedExternal(wid, new_frame, last_seen)
       /\ mouse_state = Some("Down") \/ is_in_drag(Reactor))
      => LET q == frame_changed_result(Reactor, wid, new_frame, last_seen, FALSE,
                                       change_kind, mouse_state, FALSE)
             r == handle_window_frame_changed(Reactor, wid, new_frame, last_seen, FALSE,
                                              change_kind, mouse_state, FALSE)
         IN /\ r.outcome = "drag"
            /\ DraggedAt(q, wid, new_frame)
            /\ OnlyLiveResize(r, wid)
            /\ IF mouse_state = Some("Up")
               THEN r.drag_state = Inactive
               ELSE r = q

\* C26 happens: while one window is dragged, a change of the other window
\* arrives with no mouse state; the drag session becomes the other window's,
\* and a resize of it is announced as a live resize and nothing else
C26_Witness ==
    \E wid, other \in Wids :
      /\ wid # other
      /\ dragged(Reactor) = Some(other)
      /\ CommittedExternal(wid, Narrow, None)
      /\ FrameOf(Reactor, wid) = Wide
      /\ LET r == handle_window_frame_changed(Reactor, wid, Narrow, None, FALSE,
                                              "Resize", None, FALSE)
         IN /\ r.outcome = "drag"
            /\ DraggedAt(r, wid, Narrow)
            /\ r.events = << WindowResized(wid, Wide, Narrow) >>

\* the layout updates among the layout commands a handler issued
Updates(r) == SelectSeq(r.commands, LAMBDA c : c.type = "LayoutUpdate")

\* C27: whenever a frame-change notification whose effective mouse state is
\* Up is processed while the drag state is Active or PendingSwap, whatever
\* window and frame it reports and whichever branch decides it, the drag is
\* finalized within that step: the drag state is Inactive afterwards, no
\* window is marked to skip layout, and exactly one layout update is issued.
C27_MouseUpFinalizes ==
    is_in_drag(Reactor) =>
      \A wid \in Wids, new_frame \in Frames, last_seen \in Option(TxIds),
         requested \in BOOLEAN, change_kind \in ChangeKinds :
        LET r == handle_window_frame_changed(Reactor, wid, new_frame, last_seen, requested,
                                             change_kind, Some("Up"), FALSE)
        IN /\ r.drag_state = Inactive
           /\ r.skip_layout_for_window = None
           /\ Len(Updates(r)) = 1
           /\ Len(Swaps(r)) <= 1

\* C27 happens: a swap is pending when a mouse-up notification moves the
\* dragged window once more, and when one repeats the stored frame of the
\* swap target; either ends the drag with one layout update
C27_Witness ==
    \E wid \in Wids :
      /\ drag_state.tag = "PendingSwap"
      /\ dragged(Reactor) = Some(wid)
      /\ LET target == Unwrap(drag_state.target)
             r == handle_window_frame_changed(Reactor, wid, Away, None, FALSE, "Move",
                                              Some("Up"), FALSE)
             u == handle_window_frame_changed(Reactor, target, FrameOf(Reactor, target),
                                              None, FALSE, "Move", Some("Up"), FALSE)
         IN /\ r.outcome = "drag"
            /\ r.drag_state = Inactive
            /\ Len(Updates(r)) = 1
            /\ u.outcome = "duplicate"
            /\ u.drag_state = Inactive
            /\ u.commands = << SwapWindows(wid, target), LayoutUpdate >>

OtherMismatchCase(wid, new_frame, change_kind) ==
    /\ SelfHalfCase(wid)
    /\ ~same_as(new_frame, Unwrap(PendingTarget(Reactor, wid)))
    /\ ~(/\ change_kind = "Resize"
         /\ ~size_same_as(new_frame, Unwrap(PendingTarget(Reactor, wid))))

\* C29: in self-triggered reconciliation (the notification carries the txid
\* of the pending request, the mouse is not down), a notification whose frame
\* does not match the pending target and that is not a Resize with a size
\* different from the target's is ignored: frame_monotonic, the transaction
\* record (txid and target), the probes and the constraints are unchanged and
\* no layout event is emitted.
C29_OtherMismatch ==
    \A wid \in Wids, new_frame \in ResizeFrames, requested \in BOOLEAN,
       change_kind \in ChangeKinds, mouse_state \in {None, Some("Up")},
       needs_probe \in BOOLEAN :
      OtherMismatchCase(wid, new_frame, change_kind) =>
        LET r == handle_window_frame_changed(Reactor, wid, new_frame,
                                             Some(LastSent(Reactor, wid)), requested,
                                             change_kind, mouse_state, needs_probe)
        IN r.outcome = "other_mismatch" /\ Kept(r, wid)

\* C29 happens: a request to move the window to the other space is pending;
\* a Move to a narrower frame where the window was, and a Resize of the
\* requested size at the old origin, are both ignored
C29_Witness ==
    \E wid \in Wids :
      /\ OtherMismatchCase(wid, Narrow, "Move")
      /\ OtherMismatchCase(wid, Wide, "Resize")
      /\ LastSent(Reactor, wid) > DefaultTx
      /\ FrameOf(Reactor, wid) = Wide
      /\ PendingTarget(Reactor, wid) = Some(Away)
      /\ LET m == handle_window_frame_changed(Reactor, wid, Narrow,
                                              Some(LastSent(Reactor, wid)), FALSE,
                                              "Move", None, FALSE)
             z == handle_window_frame_changed(Reactor, wid, Wide,
                                              Some(LastSent(Reactor, wid)), FALSE,
                                              "Resize", None, FALSE)
         IN /\ m.outcome = "other_mismatch" /\ Kept(m, wid)
            /\ z.outcome = "other_mismatch" /\ Kept(z, wid)

\* the space of the stored frame of wid, and that of a frame reported for it
OldSpace(wid) == best_space_for_window(FrameOf(Reactor, wid), Unwrap(windows[wid]).sys_id)
NewSpace(wid, new_frame) == best_space_for_window(new_frame, Unwrap(windows[wid]).sys_id)

\* the case of C30: a committed external change of wid to another space,
\* while no drag is in progress
PlacementCase(wid, new_frame, last_seen) ==
    /\ CommittedExternal(wid, new_frame, last_seen)
    /\ ~is_in_drag(Reactor)
    /\ OldSpace(wid) # NewSpace(wid, new_frame)

\* the exception of C30: wid is tiled (managed, not floating) under a
\* scrolling layout and still assigned to a workspace of its old space
TiledUnderScrolling(wid) ==
    /\ IsSome(OldSpace(wid))
    /\ Unwrap(OldSpace(wid)) \in ScrollingSpaces
    /\ Unwrap(windows[wid]).is_manageable
    /\ ~Unwrap(windows[wid]).ignore_app_rule

SizeFrames == ResizeFrames \cup {Shifted}

\* the case of C31: a committed external change of wid within its space,
\* while no drag is in progress
SamePlacementCase(wid, new_frame, last_seen) ==
    /\ CommittedExternal(wid, new_frame, last_seen)
    /\ ~is_in_drag(Reactor)
    /\ OldSpace(wid) = NewSpace(wid, new_frame)

\* C31: for a committed external change with no mouse button down and no
\* drag in progress whose placement is unchanged, exactly one layout event is
\* emitted when the size changed, the resize of the window from its old frame
\* to its new frame (the placement of a committed change that stays in its
\* placement is active), and no layout event is emitted when only the
\* position changed; the new frame is committed either way.
C31_SizeOnlyChange ==
    \A wid \in Wids, new_frame \in SizeFrames, last_seen \in Option(TxIds),
       change_kind \in ChangeKinds, mouse_state \in {None, Some("Up")} :
      SamePlacementCase(wid, new_frame, last_seen) =>
        LET r == handle_window_frame_changed(Reactor, wid, new_frame, last_seen, FALSE,
                                             change_kind, mouse_state, FALSE)
        IN /\ IsSome(OldSpace(wid)) /\ is_space_active(Unwrap(OldSpace(wid)))
           /\ FrameOf(r, wid) = new_frame
           /\ IF size_same_as(FrameOf(Reactor, wid), new_frame)
              THEN r.events = << >>
              ELSE r.events = << WindowResized(wid, FrameOf(Reactor, wid), new_frame) >>

\* C31 happens: a window at Wide is reported narrower where it is, which is
\* announced as one resize, and is reported moved within its space, which is
\* announced by nothing
C31_Witness ==
    \E wid \in Wids :
      /\ SamePlacementCase(wid, Narrow, None)
      /\ SamePlacementCase(wid, Shifted, None)
      /\ FrameOf(Reactor, wid) = Wide
      /\ LET z == handle_window_frame_changed(Reactor, wid, Narrow, None, FALSE, "Resize",
                                              None, FALSE)
             m == handle_window_frame_changed(Reactor, wid, Shifted, None, FALSE, "Move",
                                              None, FALSE)
         IN /\ z.outcome = "resized"
            /\ z.events = << WindowResized(wid, Wide, Narrow) >>
            /\ m.outcome = "moved"
            /\ m.events = << >>
            /\ FrameOf(m, wid) = Shifted

\* the cap of one axis as C32 words it, from the observed and the target size
\* of that axis alone
CapOfAxis(observed, target) ==
    IF Abs(observed - target) <= Tol THEN None
    ELSE IF observed < target THEN Some(observed)
    ELSE None

\* C32: infer_constraint_from_target computes each axis (width, height) from
\* the observed and the target size of that axis alone: the cap is none when
\* the observed size is within the tolerance of the target size, the observed
\* size when it is smaller than the target by more than the tolerance, and
\* none when it is larger; the inferred cap is never larger than the target
\* size.  The constraint a constrained resize stores is the merge of the one
\* so inferred from the pending target.
C32_ConstraintInference ==
    /\ \A observed \in InferFrames \cup SizedFrames, target \in InferFrames \cup SizedFrames :
         LET c == infer_constraint_from_target(observed, target)
         IN /\ c.max_w = CapOfAxis(observed.w, target.w)
            /\ c.max_h = CapOfAxis(observed.h, target.h)
            /\ IsSome(c.max_w) => Unwrap(c.max_w) < target.w
            /\ IsSome(c.max_h) => Unwrap(c.max_h) < target.h
    /\ \A wid \in Wids, new_frame \in SizedFrames :
         ConstrainedCase(wid, new_frame) =>
           LET target == Unwrap(PendingTarget(Reactor, wid))
               r == handle_window_frame_changed(Reactor, wid, new_frame,
                                                Some(LastSent(Reactor, wid)), FALSE,
                                                "Resize", None, FALSE)
           IN r.constraints[wid]
                = Some(merge_constraints(
                           constraints[wid],
                           WindowConstraint(CapOfAxis(new_frame.w, target.w),
                                            CapOfAxis(new_frame.h, target.h))))

\* C32 happens: a window asked to be 50 by 40 answers 30 by 30 (a cap on both
\* axes), would answer 49 by 30 (a cap on the height alone), and a window
\* asked to be 30 wide that answers 50 wide is given no cap on the width
C32_Witness ==
    \E wid \in Wids :
      /\ ConstrainedCase(wid, Rect(0, 0, 30, 30))
      /\ ConstrainedCase(wid, Rect(0, 0, 49, 30))
      /\ PendingTarget(Reactor, wid) = Some(Rect(0, 0, 50, 40))
      /\ constraints[wid] = None
      /\ handle_window_frame_changed(Reactor, wid, Rect(0, 0, 30, 30),
                                     Some(LastSent(Reactor, wid)), FALSE, "Resize", None,
                                     FALSE).constraints[wid]
           = Some(WindowConstraint(Some(30), Some(30)))
      /\ handle_window_frame_changed(Reactor, wid, Rect(0, 0, 49, 30),
                                     Some(LastSent(Reactor, wid)), FALSE, "Resize", None,
                                     FALSE).constraints[wid]
           = Some(WindowConstraint(None, Some(30)))
      /\ infer_constraint_from_target(Rect(0, 0, 50, 40), Rect(0, 0, 30, 40))
           = WindowConstraint(None, None)

\* the case of C33: the probe of wid is still unanswered, and a request sent
\* after it is pending under a later txid
ProbeRaceCase(wid) ==
    /\ wid \in ProbedWindows
    /\ IsSome(PendingTarget(Reactor, wid))
    /\ LastSent(Reactor, wid) > Unwrap(constraint_probes[wid]).txid

\* C33 as stated: when the answer of a probe is processed while a request
\* sent after the probe is pending under a later txid, the pending target of
\* that request is still recorded after the probe is resolved.
C33_ProbeKeepsNewerTarget ==
    \A wid \in Wids, new_frame \in Frames, mouse_state \in MouseStates :
      ProbeRaceCase(wid) =>
        LET probe == Unwrap(constraint_probes[wid])
            r == handle_window_frame_changed(Reactor, wid, new_frame, Some(probe.txid),
                                             FALSE, "Move", mouse_state, FALSE)
        IN PendingTarget(r, wid) = PendingTarget(Reactor, wid)

\* C33 amended: when the answer of a probe is processed while a request sent
\* after the probe is pending under a later txid, the resolution keeps the
\* window's last-sent txid but clears the pending target of the newer request.
C33_ProbeKeepsNewerTxid ==
    \A wid \in Wids, new_frame \in Frames, mouse_state \in MouseStates :
      ProbeRaceCase(wid) =>
        LET probe == Unwrap(constraint_probes[wid])
            r == handle_window_frame_changed(Reactor, wid, new_frame, Some(probe.txid),
                                             FALSE, "Move", mouse_state, FALSE)
        IN /\ r.outcome = "probe"
           /\ LastSent(r, wid) = LastSent(Reactor, wid)
           /\ PendingTarget(r, wid) = None

\* C33 happens: a probe under txid 1 and a request for the narrow frame under
\* txid 2; the probe's answer arrives and the target of request 2 is gone
C33_Witness ==
    \E wid \in Wids :
      /\ ProbeRaceCase(wid)
      /\ PendingTarget(Reactor, wid) = Some(Narrow)
      /\ LET probe == Unwrap(constraint_probes[wid])
             r == handle_window_frame_changed(Reactor, wid, Wide, Some(probe.txid),
                                              FALSE, "Move", None, FALSE)
         IN /\ LastSent(Reactor, wid) = probe.txid + 1
            /\ r.outcome = "probe"
            /\ LastSent(r, wid) = probe.txid + 1
            /\ PendingTarget(r, wid) = None

IssueQuiescent == \A c \in Callers : pc[c] = "idle" /\ ret[c] = None

\* C35: when callers each run next_txid(id) and then insert(id, the id it got,
\* its target) side by side on the same external id, then once all of them
\* have finished the record of the id holds the greatest transaction id
\* issued for it, together with a target; the stored txid does not end lower
\* than a transaction id already issued for the id.
C35_IssuanceSafe ==
    \A id \in ExtIds :
      (IssueQuiescent /\ issued[id].max # DefaultTx) =>
        /\ IsSome(get(store, id))
        /\ Unwrap(get(store, id)).txid = issued[id].max
        /\ IsSome(Unwrap(get(store, id)).target)

\* the id of the window that is created next, if one more can be
NextWids == {wid \in Wids : wid = Cardinality(used_wids) + 1}

\* C36 as stated: window-created for a window with external id E leaves
\* last_txid(E) as it was, and the record of E afterwards holds the window's
\* initial frame as its pending target.
C36_CreatedKeepsTxidStated ==
    \A wid \in NextWids, frame \in Frames, E \in ExtIds, is_minimized \in BOOLEAN,
       is_standard \in BOOLEAN, needs_probe \in BOOLEAN :
      LET r == handle_window_created(Reactor, wid, frame, Some(E), is_minimized,
                                     is_standard, needs_probe)
      IN /\ last_txid(r.store, E) = last_txid(store, E)
         /\ get(r.store, E) = Some(TxRecord(last_txid(store, E), Some(frame)))

\* C36 amended: window-created for a window with external id E never lowers
\* or resets E's transaction id.  When the handler starts no constraint probe
\* for the window, last_txid(E) is as it was and the record of E holds the
\* window's initial frame as its pending target; when it starts one,
\* last_txid(E) is the successor, the txid of the probe, and the record holds
\* no pending target.
C36_CreatedKeepsTxid ==
    \A wid \in NextWids, frame \in Frames, E \in ExtIds, is_minimized \in BOOLEAN,
       is_standard \in BOOLEAN, needs_probe \in BOOLEAN :
      LET r == handle_window_created(Reactor, wid, frame, Some(E), is_minimized,
                                     is_standard, needs_probe)
      IN /\ last_txid(r.store, E) >= last_txid(store, E)
         /\ IF r.constraint_probes[wid] = None
            THEN get(r.store, E) = Some(TxRecord(last_txid(store, E), Some(frame)))
            ELSE /\ get(r.store, E) = Some(TxRecord(TxNext(last_txid(store, E)), None))
                 /\ Unwrap(r.constraint_probes[wid]).txid = TxNext(last_txid(store, E))

\* C36 happens: the window server hands the external id of a window with a
\* request under way to a new window; created on the inactive space its record
\* keeps the txid and holds the initial frame, created on an active space
\* with a probe started the txid is the successor
C36_Witness ==
    \E wid \in NextWids, E \in ExtIds :
      /\ last_txid(store, E) > DefaultTx
      /\ get_target_frame(Reactor, E) = Some(Narrow)
      /\ LET r == handle_window_created(Reactor, wid, Away, Some(E), FALSE, TRUE, TRUE)
             p == handle_window_created(Reactor, wid, Wide, Some(E), FALSE, TRUE, TRUE)
         IN /\ r.constraint_probes[wid] = None
            /\ get(r.store, E) = Some(TxRecord(last_txid(store, E), Some(Away)))
            /\ IsSome(p.constraint_probes[wid])
            /\ get(p.store, E) = Some(TxRecord(last_txid(store, E) + 1, None))

\* the cases of C37: a drag is in progress, the window is not in the window
\* table, the space of the window or of the target screen is not active, or
\* the target screen shows the space of the window
MoveIgnoredCase(wid, target_screen) ==
    \/ drag_state.tag \in {"Active", "PendingSwap"}
    \/ windows[wid] = None
    \/ LET source_space == best_space_for_window(FrameOf(Reactor, wid),
                                                 Unwrap(windows[wid]).sys_id)
       IN \/ IsSome(source_space) /\ ~is_space_active(Unwrap(source_space))
          \/ ~is_space_active(target_screen)
          \/ source_space = Some(target_screen)

\* C37: while a drag is in progress a move-window-to-display command changes
\* nothing: no transaction id is issued, no request is sent, the frame of every
\* window is as it was and no layout update is issued; the same holds when the
\* resolved window is unknown, when the source or the target space is
\* inactive, and when the target space is the source space.
C37_MoveIgnored ==
    \A wid \in Wids, target_screen \in Spaces :
      MoveIgnoredCase(wid, target_screen) =>
        LET r == handle_command_reactor_move_window_to_display(Reactor, Some(wid),
                                                               Some(target_screen))
        IN /\ r.store = store
           /\ r.requests = << >>
           /\ r.windows = windows
           /\ r.commands = << >>
           /\ r.events = << >>
           /\ NoOp(r)

\* C37 happens: a window on the first space is dragged and the command names
\* the third space, to which the window would go were no drag in progress;
\* the other window is unknown
C37_Witness ==
    \E wid, other \in Wids :
      /\ drag_state.tag = "Active"
      /\ dragged(Reactor) = Some(wid)
      /\ IsSome(windows[wid])
      /\ windows[other] = None
      /\ best_space_for_window(FrameOf(Reactor, wid), Unwrap(windows[wid]).sys_id) = Some(1)
      /\ NoOp(handle_command_reactor_move_window_to_display(Reactor, Some(wid), Some(3)))
      /\ NoOp(handle_command_reactor_move_window_to_display(Reactor, Some(other), Some(3)))
      /\ handle_command_reactor_move_window_to_display(
             [Reactor EXCEPT !.drag_state = Inactive], Some(wid), Some(3)).outcome
           = "moved_to_display"

\* in Reactor r a minimized window is not manageable and has no probe
MinimizedUnmanaged(r) ==
    \A wid \in Wids :
      (IsSome(r.windows[wid]) /\ Unwrap(r.windows[wid]).is_minimized) =>
        /\ ~Unwrap(r.windows[wid]).is_manageable
        /\ r.constraint_probes[wid] = None

\* C38: in every reachable state a minimized window is not manageable and has
\* no in-flight constraint probe (a window created minimized included);
\* minimizing a minimized window and de-minimizing a window that is not
\* minimized change no state and emit no layout event; minimizing a window
\* that is not minimized emits exactly one window-removed event.
C38_MinimizedWindows ==
    /\ MinimizedUnmanaged(Reactor)
    /\ \A wid \in NextWids, frame \in Frames, sys_id \in Option(ExtIds),
          is_standard \in BOOLEAN, needs_probe \in BOOLEAN :
         MinimizedUnmanaged(handle_window_created(Reactor, wid, frame, sys_id, TRUE,
                                                  is_standard, needs_probe))
    /\ \A wid \in Wids, needs_probe \in BOOLEAN :
         IsSome(windows[wid]) =>
           IF Unwrap(windows[wid]).is_minimized
           THEN /\ NoOp(handle_window_minimized(Reactor, wid))
                /\ MinimizedUnmanaged(handle_window_deminiaturized(Reactor, wid, needs_probe))
           ELSE /\ NoOp(handle_window_deminiaturized(Reactor, wid, needs_probe))
                /\ handle_window_minimized(Reactor, wid).events = << WindowRemoved(wid) >>
                /\ MinimizedUnmanaged(handle_window_minimized(Reactor, wid))

\* C38 happens: one window is minimized, and minimizing it again does
\* nothing; the other has a probe in flight, de-minimizing it does nothing
\* and minimizing it removes the probe and announces the removal once
C38_Witness ==
    \E wid, other \in Wids :
      /\ IsSome(windows[wid])
      /\ Unwrap(windows[wid]).is_minimized
      /\ NoOp(handle_window_minimized(Reactor, wid))
      /\ IsSome(windows[other])
      /\ ~Unwrap(windows[other]).is_minimized
      /\ IsSome(constraint_probes[other])
      /\ NoOp(handle_window_deminiaturized(Reactor, other, TRUE))
      /\ handle_window_minimized(Reactor, other).events = << WindowRemoved(other) >>
      /\ handle_window_minimized(Reactor, other).constraint_probes[other] = None

\* in actor a, mission control is active exactly when a view mode is set, and
\* an active actor holds an overlay
ActorConsistent(a) ==
    /\ a.mission_control_active <=> IsSome(a.current_view_mode)
    /\ a.mission_control_active => a.overlay

\* C39: after every handled event and every overlay action
\* mission_control_active holds exactly when current_view_mode is set, and an
\* active actor holds an overlay; ShowAll or ShowCurrent received while active
\* dismisses, and shows while inactive; Dismiss leaves the actor inactive;
\* every overlay action leaves the actor inactive with no overlay;
\* RefreshCurrentWorkspace does not change whether the actor is active.
C39_MissionControlActor ==
    /\ ActorConsistent(mission_control)
    /\ \A event \in ActorEvents :
         LET a == handle_event(mission_control, event)
         IN /\ ActorConsistent(a)
            /\ event \in {"ShowAll", "ShowCurrent"} =>
                 /\ a.mission_control_active = ~mission_control.mission_control_active
                 /\ mission_control.mission_control_active =>
                      ~a.overlay /\ a.current_view_mode = None
            /\ event = "Dismiss" => ~a.mission_control_active
            /\ event = "RefreshCurrentWorkspace" =>
                 /\ a.mission_control_active = mission_control.mission_control_active
                 /\ a.current_view_mode = mission_control.current_view_mode
    /\ \A action \in MissionControlActions :
         LET a == handle_overlay_action(mission_control, action)
         IN /\ ActorConsistent(a)
            /\ ~a.mission_control_active
            /\ ~a.overlay

\* C39 happens: the actor shows all workspaces, with ShowCurrent next in its
\* queue, which will dismiss the overlay instead of showing the current
\* workspace
C39_Witness ==
    /\ mission_control.running
    /\ mission_control.mission_control_active
    /\ mission_control.current_view_mode = Some("AllWorkspaces")
    /\ rx # << >>
    /\ Head(rx) = "ShowCurrent"
    /\ handle_event(mission_control, Head(rx))
         = [mission_control EXCEPT !.overlay = FALSE, !.mission_control_active = FALSE,
                                   !.current_view_mode = None]
    /\ ~handle_overlay_action(mission_control, "FocusWindow").overlay

\* C40: over any sequence of menu-opened and menu-closed notifications the
\* menu state is Closed or Open(1): a menu-opened notification opens the menu
\* at depth 1 when it is closed and is ignored when it is open, and after a
\* menu-closed notification the state is Closed, whatever the number of
\* menu-opened notifications before it; neither notification touches the rest
\* of the Reactor.
C40_MenuState ==
    /\ menu_state \in {Closed, Open(1)}
    /\ menu_state.depth <= 1
    /\ handle_menu_opened(Reactor).menu_state = Open(1)
    /\ menu_state = Open(1) => NoOp(handle_menu_opened(Reactor))
    /\ handle_menu_closed(Reactor).menu_state = Closed
    /\ handle_menu_closed(handle_menu_opened(handle_menu_opened(Reactor))).menu_state = Closed
    /\ [handle_menu_opened(Reactor) EXCEPT !.menu_state = menu_state, !.outcome = "none"]
         = Reactor
    /\ [handle_menu_closed(Reactor) EXCEPT !.menu_state = menu_state, !.outcome = "none"]
         = Reactor

\* C40 happens: a menu is open over a window with a request under way; a
\* second menu-opened notification leaves depth 1 and one menu-closed
\* notification closes the menu
C40_Witness ==
    /\ menu_state = Open(1)
    /\ \E wid \in Wids : IsSome(PendingTarget(Reactor, wid))
    /\ handle_menu_opened(Reactor).menu_state = Open(1)
    /\ handle_menu_closed(handle_menu_opened(Reactor)).menu_state = Closed

=============================================================================
